---- MODULE Spec2Model ----
(***************************************************************************)
(* Model of the mask engine of eocis_chuk_api (chuk_auxilary_utils.py):    *)
(* leaf masks over a categorical raster with a lazily cached boolean grid, *)
(* and combined masks (and / or / not) that re-evaluate their children;    *)
(* and of the checks of a dataset against the required metadata and the    *)
(* reference grid (chuk_metadata.py, chuk_dataset_utils.py).               *)
(*                                                                         *)
(* Strings that the code inspects character by character (category names   *)
(* and tokens) are sequences of one-character strings.                     *)
(***************************************************************************)
EXTENDS Integers, Sequences, FiniteSets, Bags, TLC

VARIABLES
    leaves,     \* the CHUKAuxilaryDataMask objects created so far
    combos,     \* the CHUKAuxilaryDataCombinedMask objects created so far
    env,        \* what the installed xarray/numpy and the files' layout decide
    datasets,   \* the xarray.Dataset objects the caller holds
    result      \* the outcome of the last call made by the caller

vars == <<leaves, combos, env, datasets, result>>

\* ------------------------------------------------------------------ bounds

\* Spec: masks of both classes created, tokens selected per leaf, children
\* passed to one combination
MaxMasks == 3
MaxSel == 1
MaxChildren == 2

\* SpecLeaf: leaf masks created, tokens selected per leaf
LeafMaxLeaves == 1
LeafMaxSel == 2

\* SpecResolve: category names declared by the raster
ResolveMaxNames == 3

\* SpecCheck: the length of a dimension
CheckMaxSize == 3

\* SpecNames: leaf masks created, tokens selected per leaf
NamesMaxLeaves == 1
NamesMaxSel == 2

\* SpecSeries: leaf masks created, masks of both classes created, tokens
\* selected per leaf, children passed to one combination
SeriesMaxLeaves == 1
SeriesMaxMasks == 2
SeriesMaxSel == 1
SeriesMaxChildren == 2

\* SpecShapes: leaf masks created, masks of both classes created, tokens
\* selected per leaf, children passed to one combination
ShapesMaxLeaves == 2
ShapesMaxMasks == 3
ShapesMaxSel == 1
ShapesMaxChildren == 2

\* SpecJson: the nesting of an attribute value, the objects the interpreter
\* may hold when to_json is called
JsonMaxDepth == 2
JsonMaxCells == 16

\* SpecCreate: the keyword arguments in which a call of create_new_dataset
\* departs from the call of the unit test
CreateMaxArgs == 3

\* SpecVariable: the length of an axis of the data and of the grid, the
\* number of axes of the data, the variables added to the dataset
VarMaxSize == 3
VarMaxDims == 3
VarMaxVariables == 2

\* SpecStore: the datasets the caller holds
StoreMaxDatasets == 2

\* ------------------------------------------------------------------ values

\* Python's None, and a present object o, as the value of a nullable field
None == <<>>
Some(o) == <<o>>

\* a missing cell of the raster (IEEE NaN): equal to no category code
NaN == -1

\* the cell values of an evaluated mask: numpy booleans, or the NaN object
\* that xarray fills in when it aligns grids of different extents
PyTrue == "True"
PyFalse == "False"
PyNaN == "nan"

\* ------------------------------------------------------- the raster files

Dw == <<"D", "w">>
Cw == <<"C", "w">>
Ur == <<"U", "r">>

Datasets == {"landcover", "strip"}

\* a raster with a time axis
Series == "series"

\* self.da.shape : (y, x), or (time, y, x)
Shape(dataset_name) ==
    CASE dataset_name = "landcover" -> <<2, 3>>
      [] dataset_name = Series -> <<2, 1, 2>>
      [] OTHER -> <<1, 3>>

\* the index tuples of an array of the given shape
Cells(shape) ==
    IF Len(shape) = 2
    THEN (1..shape[1]) \X (1..shape[2])
    ELSE (1..shape[1]) \X (1..shape[2]) \X (1..shape[3])

\* self.da : the raster of category codes; NaN marks missing data
Da(dataset_name) ==
    IF dataset_name = "landcover"
    THEN [c \in Cells(<<2, 3>>) |->
            CASE c = <<1, 1>> -> 1
              [] c = <<1, 2>> -> 2
              [] c = <<1, 3>> -> 3
              [] c = <<2, 1>> -> NaN
              [] c = <<2, 2>> -> 4
              [] c = <<2, 3>> -> 1]
    ELSE IF dataset_name = Series
    THEN [c \in Cells(<<2, 1, 2>>) |->
            CASE c = <<1, 1, 1>> -> 1
              [] c = <<1, 1, 2>> -> NaN
              [] c = <<2, 1, 1>> -> 3
              [] c = <<2, 1, 2>> -> 2]
    ELSE [c \in Cells(<<1, 3>>) |->
            CASE c = <<1, 1>> -> 2
              [] c = <<1, 2>> -> NaN
              [] c = <<1, 3>> -> 1]

\* self.da.attrs["flag_meanings"].split(" ")
FlagMeanings(dataset_name) ==
    IF dataset_name \in {"landcover", Series} THEN <<Dw, Cw, Ur>> ELSE <<Dw, Ur, Dw>>

\* self.da.attrs["flag_values"]
FlagValues(dataset_name) ==
    IF dataset_name \in {"landcover", Series} THEN <<1, 2, 3>> ELSE <<1, 3, 2>>

\* ----------------------------------------------------------- value_lookup

Min(a, b) == IF a < b THEN a ELSE b

RECURSIVE DictKeys(_, _)
\* the keys of the dict filled by the zip loop, in insertion order
DictKeys(meanings, n) ==
    IF n = 0 THEN <<>>
    ELSE LET before == DictKeys(meanings, n - 1)
         IN  IF \E i \in 1..Len(before) : before[i] = meanings[n]
             THEN before
             ELSE Append(before, meanings[n])

\* the dict filled by "for (meaning, value) in zip(meanings, values)" : a
\* later (meaning, value) pair overwrites an earlier one
MakeLookup(meanings, values) ==
    LET n == Min(Len(meanings), Len(values))
        keys == DictKeys(meanings, n)
        last(k) == CHOOSE i \in 1..n :
                      /\ meanings[i] = k
                      /\ \A j \in (i + 1)..n : meanings[j] # k
    IN  [keys |-> keys,
         val |-> [k \in {keys[i] : i \in 1..Len(keys)} |-> values[last(k)]]]

\* self.value_lookup
ValueLookup(dataset_name) ==
    MakeLookup(FlagMeanings(dataset_name), FlagValues(dataset_name))

HasKey(lookup, k) == \E i \in 1..Len(lookup.keys) : lookup.keys[i] = k

\* --------------------------------------------------------------- fnmatch

\* where the pattern's class "[...]" opened at pat[1] closes: the first "]"
\* after the "[", an optional "!" and an optional "]"; 0 when it never closes
ClassEnd(pat) ==
    LET start == IF Len(pat) >= 2 /\ pat[2] = "!" THEN 3 ELSE 2
        first == IF start <= Len(pat) /\ pat[start] = "]" THEN start + 1 ELSE start
        closers == {j \in first..Len(pat) : pat[j] = "]"}
    IN  IF closers = {} THEN 0
        ELSE CHOOSE j \in closers : \A k \in closers : j <= k

RECURSIVE fnmatchcase(_, _)
\* fnmatch.fnmatchcase(name, pat) : "*", "?", "[seq]", "[!seq]" (classes
\* without ranges) and literals; a "[" that is never closed is a literal
fnmatchcase(name, pat) ==
    IF pat = <<>> THEN name = <<>>
    ELSE IF Head(pat) = "*"
         THEN \/ fnmatchcase(name, Tail(pat))
              \/ (name # <<>> /\ fnmatchcase(Tail(name), pat))
    ELSE IF Head(pat) = "?"
         THEN name # <<>> /\ fnmatchcase(Tail(name), Tail(pat))
    ELSE IF Head(pat) = "[" /\ ClassEnd(pat) # 0
         THEN LET end == ClassEnd(pat)
                  negated == pat[2] = "!"
                  stuff == {pat[j] : j \in (IF negated THEN 3 ELSE 2)..(end - 1)}
              IN  /\ name # <<>>
                  /\ (Head(name) \in stuff) # negated
                  /\ fnmatchcase(Tail(name), SubSeq(pat, end + 1, Len(pat)))
    ELSE name # <<>> /\ Head(name) = Head(pat) /\ fnmatchcase(Tail(name), Tail(pat))

\* str.lower() of one character
Lower(ch) ==
    CASE ch = "D" -> "d"
      [] ch = "C" -> "c"
      [] ch = "U" -> "u"
      [] ch = "X" -> "x"
      [] OTHER -> ch

RECURSIVE LowerAll(_)
LowerAll(s) == IF s = <<>> THEN <<>> ELSE <<Lower(Head(s))>> \o LowerAll(Tail(s))

\* os.path.normcase : the identity on POSIX, lower case on Windows
normcase(s) == IF env.os = "nt" THEN LowerAll(s) ELSE s

\* fnmatch.fnmatch(name, pat)
fnmatch(name, pat) == fnmatchcase(normcase(name), normcase(pat))

RECURSIVE FilterKeys(_, _)
\* the for loop of __get_matching_keys : keys that match, in dict order
FilterKeys(keys, pattern) ==
    IF keys = <<>> THEN <<>>
    ELSE IF fnmatch(Head(keys), pattern)
         THEN <<Head(keys)>> \o FilterKeys(Tail(keys), pattern)
         ELSE FilterKeys(Tail(keys), pattern)

\* __get_matching_keys without its test "value_or_pattern in self.value_lookup"
get_matching_keys_GlobOnly(lookup, value_or_pattern) ==
    FilterKeys(lookup.keys, value_or_pattern)

\* CHUKAuxilaryDataMask.__get_matching_keys
get_matching_keys(lookup, value_or_pattern) ==
    IF HasKey(lookup, value_or_pattern)
    THEN <<value_or_pattern>>
    ELSE FilterKeys(lookup.keys, value_or_pattern)

\* ------------------------------------------------------------ leaf masks

\* CHUKAuxilaryDataMask.__init__
NewLeafMask(dataset_name, include_missing) ==
    [dataset_name |-> dataset_name,
     variable_name |-> "land_cover",
     mask_values |-> <<>>,
     cached_result |-> None,
     include_missing |-> include_missing]

RECURSIVE SelectedKeys(_, _)
\* the loop "for mask_value in self.mask_values: keys += matching keys"
SelectedKeys(lookup, mask_values) ==
    IF mask_values = <<>> THEN <<>>
    ELSE get_matching_keys(lookup, Head(mask_values))
            \o SelectedKeys(lookup, Tail(mask_values))

\* CHUKAuxilaryDataMask.get_all_mask_values
get_all_mask_values(leaf) == ValueLookup(leaf.dataset_name).keys

\* get_selected_mask_values, were it to list each name once
get_selected_mask_values_Dedup(leaf) ==
    LET keys == SelectedKeys(ValueLookup(leaf.dataset_name), leaf.mask_values)
    IN  DictKeys(keys, Len(keys))

\* CHUKAuxilaryDataMask.get_selected_mask_values
get_selected_mask_values(leaf) ==
    SelectedKeys(ValueLookup(leaf.dataset_name), leaf.mask_values)

\* self.da.isin(filter_values) at one cell: NaN is in no list of codes
IsIn(v, filter_values) == v # NaN /\ v \in filter_values

\* to_array with "filter_keys =" for "filter_keys +=" : the last token only
ComputeMask_LastToken(leaf) ==
    LET lookup == ValueLookup(leaf.dataset_name)
        n == Len(leaf.mask_values)
        filter_keys == IF n = 0 THEN <<>>
                       ELSE get_matching_keys(lookup, leaf.mask_values[n])
        filter_values == {lookup.val[filter_keys[i]] : i \in 1..Len(filter_keys)}
        da == Da(leaf.dataset_name)
        isin == [c \in DOMAIN da |->
                    IF IsIn(da[c], filter_values) THEN PyTrue ELSE PyFalse]
    IN  IF leaf.include_missing
        THEN [c \in DOMAIN da |-> IF da[c] = NaN THEN PyTrue ELSE isin[c]]
        ELSE isin

\* the grid computed by to_array when the cache is empty
ComputeMask(leaf) ==
    LET lookup == ValueLookup(leaf.dataset_name)
        filter_keys == SelectedKeys(lookup, leaf.mask_values)
        filter_values == {lookup.val[filter_keys[i]] : i \in 1..Len(filter_keys)}
        da == Da(leaf.dataset_name)
        isin == [c \in DOMAIN da |->
                    IF IsIn(da[c], filter_values) THEN PyTrue ELSE PyFalse]
    IN  IF leaf.include_missing
        THEN [c \in DOMAIN da |-> IF da[c] = NaN THEN PyTrue ELSE isin[c]]
        ELSE isin

\* The identity of a grid object. The grids a leaf computes are told apart
\* by <<leaf, serial>>; the grid a combined mask returns is made for that
\* call and never stored, and carries NoId.
NoId == <<0, 0>>
IdsOf(field) == {field[i].id : i \in 1..Len(field)}

\* a new object is none of the objects that are still alive
FreshId(i, used) ==
    <<i, CHOOSE n \in 1..(Cardinality(used) + 1) :
            <<i, n>> \notin used /\ \A m \in 1..(n - 1) : <<i, m>> \in used>>

\* to_array without its "if self.cached_result is None" test
LeafToArray_Recompute(i, leaf, used) ==
    [leaf EXCEPT !.cached_result =
        Some([id |-> FreshId(i, used),
              shape |-> Shape(leaf.dataset_name),
              data |-> ComputeMask(leaf)])]

\* CHUKAuxilaryDataMask.to_array : the leaf (number i) after the call
LeafToArray(i, leaf, used) ==
    IF leaf.cached_result = None
    THEN [leaf EXCEPT !.cached_result =
            Some([id |-> FreshId(i, used),
                  shape |-> Shape(leaf.dataset_name),
                  data |-> ComputeMask(leaf)])]
    ELSE leaf

\* add_mask_value without "self.cached_result = None"
LeafAddMaskValue_KeepCache(leaf, mask_value) ==
    [leaf EXCEPT !.mask_values = Append(@, mask_value)]

\* add_mask_value with insert(0, mask_value) for append(mask_value)
LeafAddMaskValue_Prepend(leaf, mask_value) ==
    [leaf EXCEPT !.cached_result = None,
                 !.mask_values = <<mask_value>> \o @]

\* CHUKAuxilaryDataMask.add_mask_value : the leaf after a successful call
LeafAddMaskValue(leaf, mask_value) ==
    [leaf EXCEPT !.cached_result = None,
                 !.mask_values = Append(@, mask_value)]

\* -------------------------------------------------------- combined masks

\* a reference to a mask object: a leaf or a combined mask, by creation index
LeafRef(i) == [kind |-> "leaf", ix |-> i]
ComboRef(j) == [kind |-> "combined", ix |-> j]
NoRef == [kind |-> "none", ix |-> 0]

Refs(lv, cb) ==
    {LeafRef(i) : i \in 1..Len(lv)} \cup {ComboRef(j) : j \in 1..Len(cb)}

Operators == {"and", "or", "not"}

\* __init__ without its check of the number of masks given to "not"
CombinedInitRaises_NotUnchecked(masks, operator) ==
    \/ Len(masks) = 0
    \/ operator \notin {"and", "or", "not"}

\* the checks of CHUKAuxilaryDataCombinedMask.__init__ : TRUE when it raises
CombinedInitRaises(masks, operator) ==
    \/ Len(masks) = 0
    \/ operator \notin {"and", "or", "not"}
    \/ (operator = "not" /\ Len(masks) > 1)

\* CHUKAuxilaryDataCombinedMask.__init__ : the object it initialises
NewCombinedMask(masks, operator) ==
    [input_masks |-> masks, operator |-> operator]

\* Python truth of a cell: only False is falsy (bool(nan) is True)
Truthy(v) == v # PyFalse

\* xr.where(m, True, False) for xr.where(m, False, True)
Invert_Swapped(grid) ==
    [grid EXCEPT !.id = NoId,
                 !.data = [c \in DOMAIN grid.data |->
                             IF Truthy(grid.data[c]) THEN PyTrue ELSE PyFalse]]

\* xr.where(m, False, True)
Invert(grid) ==
    [grid EXCEPT !.id = NoId,
                 !.data = [c \in DOMAIN grid.data |->
                             IF Truthy(grid.data[c]) THEN PyFalse ELSE PyTrue]]

RECURSIVE OrChain(_)
\* numpy 1.x reduces an object array with Python's "or": the first truthy
\* element, else the last one
OrChain(vs) ==
    IF Len(vs) = 1 \/ Truthy(Head(vs)) THEN Head(vs) ELSE OrChain(Tail(vs))

RECURSIVE AndChain(_)
\* numpy 1.x reduces an object array with Python's "and": the first falsy
\* element, else the last one
AndChain(vs) ==
    IF Len(vs) = 1 \/ ~Truthy(Head(vs)) THEN Head(vs) ELSE AndChain(Tail(vs))

\* stacked.any(dim="layer") at one cell
AnyLayer(e, vs) ==
    IF e = "indexed_numpy2"
    THEN IF \E i \in 1..Len(vs) : Truthy(vs[i]) THEN PyTrue ELSE PyFalse
    ELSE OrChain(vs)

\* stacked.all(dim="layer") at one cell
AllLayer(e, vs) ==
    IF e = "indexed_numpy2"
    THEN IF \A i \in 1..Len(vs) : Truthy(vs[i]) THEN PyTrue ELSE PyFalse
    ELSE AndChain(vs)

NoGrid == [id |-> NoId, shape |-> <<0, 0>>, data |-> <<>>]

\* xr.concat(grids, "layer") : the layers are aligned first. Dimensions
\* without coordinate labels must agree in size; labelled dimensions are
\* outer-joined and the cells a layer lacks are filled with NaN.
Concat(e, grids) ==
    LET shapes == {grids[i].shape : i \in 1..Len(grids)}
        extent(k) == CHOOSE n \in {s[k] : s \in shapes} : \A s \in shapes : s[k] <= n
        joined == IF Len(grids[1].shape) = 2
                  THEN <<extent(1), extent(2)>>
                  ELSE <<extent(1), extent(2), extent(3)>>
    IN  IF Cardinality(shapes) > 1 /\ e = "unindexed"
        THEN [status |-> "ValueError", shape |-> <<0, 0>>, layers |-> <<>>]
        ELSE [status |-> "ok",
              shape |-> joined,
              layers |-> [i \in 1..Len(grids) |->
                            [c \in Cells(joined) |->
                                IF c \in DOMAIN grids[i].data
                                THEN grids[i].data[c]
                                ELSE PyNaN]]]

\* to_array with the branches of "or" and "and" exchanged
Reduce_Exchanged(e, operator, stacked) ==
    LET at(c) == [i \in 1..Len(stacked.layers) |-> stacked.layers[i][c]]
    IN  [id |-> NoId,
         shape |-> stacked.shape,
         data |-> [c \in Cells(stacked.shape) |->
                     IF operator = "or" THEN AllLayer(e, at(c))
                     ELSE AnyLayer(e, at(c))]]

\* the reduction of CHUKAuxilaryDataCombinedMask.to_array over the layers
Reduce(e, operator, stacked) ==
    LET at(c) == [i \in 1..Len(stacked.layers) |-> stacked.layers[i][c]]
    IN  [id |-> NoId,
         shape |-> stacked.shape,
         data |-> [c \in Cells(stacked.shape) |->
                     IF operator = "or" THEN AnyLayer(e, at(c))
                     ELSE AllLayer(e, at(c))]]

Raised(lv, returns) ==
    [leaves |-> lv, status |-> "ValueError", grid |-> NoGrid, returns |-> returns]

RECURSIVE EvalMask(_, _, _, _, _)
RECURSIVE EvalAll(_, _, _, _, _)

\* mask.to_array() for the mask object that ref names. It yields the leaves
\* afterwards (their caches may have been filled), the returned grid or the
\* exception raised, and what each leaf's to_array returned on the way.
EvalMask(e, lv, cb, held, ref) ==
    IF ref.kind = "leaf"
    THEN LET used == UNION {IdsOf(lv[i].cached_result) : i \in 1..Len(lv)} \cup held
             leaf == LeafToArray(ref.ix, lv[ref.ix], used)
         IN  [leaves |-> [lv EXCEPT ![ref.ix] = leaf],
              status |-> "ok",
              grid |-> leaf.cached_result[1],
              returns |-> {leaf.cached_result[1].id}]
    ELSE LET self == cb[ref.ix]
         IN  IF self.operator = "not"
             THEN LET m == EvalMask(e, lv, cb, held, self.input_masks[1])
                  IN  IF m.status # "ok" THEN m
                      ELSE [m EXCEPT !.grid = Invert(m.grid)]
             ELSE LET ms == EvalAll(e, lv, cb, held, self.input_masks)
                      stacked == Concat(e, ms.grids)
                  IN  IF ms.status # "ok" THEN Raised(ms.leaves, ms.returns)
                      ELSE IF stacked.status # "ok"
                           THEN Raised(ms.leaves, ms.returns)
                      ELSE [leaves |-> ms.leaves,
                            status |-> "ok",
                            grid |-> Reduce(e, self.operator, stacked),
                            returns |-> ms.returns]

\* [m.to_array() for m in self.input_masks] : left to right, stopping at the
\* first child that raises
EvalAll(e, lv, cb, held, masks) ==
    IF masks = <<>>
    THEN [leaves |-> lv, status |-> "ok", grids |-> <<>>, returns |-> {}]
    ELSE LET m == EvalMask(e, lv, cb, held, Head(masks))
             rest == EvalAll(e, m.leaves, cb, held, Tail(masks))
         IN  IF m.status # "ok"
             THEN [leaves |-> m.leaves, status |-> m.status,
                   grids |-> <<>>, returns |-> m.returns]
             ELSE [leaves |-> rest.leaves,
                   status |-> rest.status,
                   grids |-> <<m.grid>> \o rest.grids,
                   returns |-> m.returns \cup rest.returns]

\* m.size for m.sum()
SumTrue_Size(grid) == Cardinality(DOMAIN grid.data)

\* m.sum() : the number of True cells (NaN cells are skipped)
SumTrue(grid) == Cardinality({c \in DOMAIN grid.data : grid.data[c] = PyTrue})

RECURSIVE Product(_)
Product(shape) == IF shape = <<>> THEN 1 ELSE Head(shape) * Product(Tail(shape))

\* the product of the last two (spatial) dimensions only
Size_Spatial(grid) ==
    grid.shape[Len(grid.shape) - 1] * grid.shape[Len(grid.shape)]

\* "count = 1; for d in m.shape: count *= d"
Size(grid) == Product(grid.shape)

\* ------------------------------------------------------------ the caller

\* the tokens the caller passes: an exact name, a pattern, and no match
Tokens == {Ur, <<"*", "w">>, <<"X">>}

\* the operator strings the caller passes: the three valid ones and another
OperatorArgs == Operators \cup {"xor"}

Envs == {"unindexed", "indexed_numpy1", "indexed_numpy2"}

RECURSIVE SeqsUpTo(_, _)
\* the sequences over S of length at most n
SeqsUpTo(S, n) ==
    IF n = 0 THEN {<<>>}
    ELSE LET shorter == SeqsUpTo(S, n - 1)
         IN  shorter \cup {Append(q, x) : q \in shorter, x \in S}

\* the record of a call: what was called, on which mask (for a constructor:
\* the mask it made), with which arguments, and what came back
Call(op, mask, status) ==
    [op |-> op, mask |-> mask, status |-> status,
     token |-> <<>>, include_missing |-> FALSE,
     operator |-> "", nmasks |-> 0,
     grid |-> None, names |-> <<>>, count |-> 0, total |-> 0,
     returns |-> {},
     dataset |-> 0, warnings |-> EmptyBag, errors |-> <<>>,
     object |-> 0,
     args |-> <<>>, include_lon_lat |-> FALSE, other_attributes |-> <<>>,
     shape |-> <<>>, variable_name |-> "",
     path |-> "", add_latlon |-> FALSE, add_latlon_bnds |-> FALSE,
     returned |-> ""]

Init ==
    /\ leaves = <<>>
    /\ combos = <<>>
    /\ datasets = <<>>
    /\ env = [files |-> {"landcover"}, layout |-> "unindexed", os |-> "posix"]
    /\ result = Call("start", NoRef, "ok")

\* mask = CHUKAuxilaryDataMask(dataset_name, variable_name, include_missing)
Construct(dataset_name, include_missing) ==
    /\ leaves' = Append(leaves, NewLeafMask(dataset_name, include_missing))
    /\ result' = [Call("CHUKAuxilaryDataMask", LeafRef(Len(leaves) + 1), "ok")
                     EXCEPT !.include_missing = include_missing]
    /\ UNCHANGED <<combos, env, datasets>>

RECURSIVE AddAll(_, _)
\* the loop of create_mask: add_mask_value for each value, until one raises
AddAll(mask, mask_values) ==
    IF mask_values = <<>> THEN [status |-> "ok", mask |-> mask]
    ELSE IF get_matching_keys(ValueLookup(mask.dataset_name), Head(mask_values)) = <<>>
         THEN [status |-> "ValueError", mask |-> mask]
         ELSE AddAll(LeafAddMaskValue(mask, Head(mask_values)), Tail(mask_values))

\* CHUKAuxilaryUtils.create_mask(dataset_path, variable, mask_values, include_missing)
\* mask_values is a str or a list of str
create_mask(dataset_path, mask_values, include_missing) ==
    /\ LET mask == NewLeafMask(dataset_path, FALSE)
           values == IF mask_values.type = "str"
                     THEN <<mask_values.value>>
                     ELSE mask_values.value
           added == AddAll(mask, values)
       IN  IF added.status = "ok"
           THEN /\ leaves' = Append(leaves, added.mask)
                /\ result' = [Call("create_mask", LeafRef(Len(leaves) + 1), "ok")
                                 EXCEPT !.include_missing = include_missing]
           ELSE /\ leaves' = leaves
                /\ result' = [Call("create_mask", NoRef, "ValueError")
                                 EXCEPT !.include_missing = include_missing]
    /\ UNCHANGED <<combos, env, datasets>>

\* leaf.add_mask_value(mask_value)
add_mask_value(i, mask_value) ==
    LET self == leaves[i]
        matching_keys == get_matching_keys(ValueLookup(self.dataset_name), mask_value)
    IN  /\ IF Len(matching_keys) = 0
           THEN /\ leaves' = leaves
                /\ result' = [Call("add_mask_value", LeafRef(i), "ValueError")
                                 EXCEPT !.token = mask_value]
           ELSE /\ leaves' = [leaves EXCEPT ![i] = LeafAddMaskValue(self, mask_value)]
                /\ result' = [Call("add_mask_value", LeafRef(i), "ok")
                                 EXCEPT !.token = mask_value,
                                        !.names = matching_keys]
        /\ UNCHANGED <<combos, env, datasets>>

\* leaf.get_all_mask_values()
call_get_all_mask_values(i) ==
    /\ result' = [Call("get_all_mask_values", LeafRef(i), "ok")
                     EXCEPT !.names = get_all_mask_values(leaves[i])]
    /\ UNCHANGED <<leaves, combos, env, datasets>>

\* leaf.get_selected_mask_values()
call_get_selected_mask_values(i) ==
    /\ result' = [Call("get_selected_mask_values", LeafRef(i), "ok")
                     EXCEPT !.names = get_selected_mask_values(leaves[i])]
    /\ UNCHANGED <<leaves, combos, env, datasets>>

\* mask.to_array()
to_array(ref) ==
    LET m == EvalMask(env.layout, leaves, combos, IdsOf(result.grid), ref)
    IN  /\ leaves' = m.leaves
        /\ result' =
             IF m.status = "ok"
             THEN [Call("to_array", ref, "ok")
                     EXCEPT !.grid = Some(m.grid),
                            !.returns = m.returns]
             ELSE [Call("to_array", ref, m.status) EXCEPT !.returns = m.returns]
        /\ UNCHANGED <<combos, env, datasets>>

\* mask.count()
count(ref) ==
    LET m == EvalMask(env.layout, leaves, combos, IdsOf(result.grid), ref)
    IN  /\ leaves' = m.leaves
        /\ result' =
             IF m.status = "ok"
             THEN [Call("count", ref, "ok")
                     EXCEPT !.count = SumTrue(m.grid), !.returns = m.returns]
             ELSE [Call("count", ref, m.status) EXCEPT !.returns = m.returns]
        /\ UNCHANGED <<combos, env, datasets>>

\* mask.fraction() : the quotient count / total
fraction(ref) ==
    LET m == EvalMask(env.layout, leaves, combos, IdsOf(result.grid), ref)
    IN  /\ leaves' = m.leaves
        /\ result' =
             IF m.status = "ok"
             THEN [Call("fraction", ref, "ok")
                     EXCEPT !.count = SumTrue(m.grid), !.total = Size(m.grid),
                            !.returns = m.returns]
             ELSE [Call("fraction", ref, m.status) EXCEPT !.returns = m.returns]
        /\ UNCHANGED <<combos, env, datasets>>

\* the constructor call, were it to drop the caches of the leaves it is given
Combine_DropsCaches(op, masks, operator) ==
    /\ IF CombinedInitRaises(masks, operator)
       THEN /\ combos' = combos
            /\ result' = [Call(op, NoRef, "ValueError")
                             EXCEPT !.operator = operator, !.nmasks = Len(masks)]
       ELSE /\ combos' = Append(combos, NewCombinedMask(masks, operator))
            /\ result' = [Call(op, ComboRef(Len(combos) + 1), "ok")
                             EXCEPT !.operator = operator, !.nmasks = Len(masks)]
    /\ leaves' = [i \in 1..Len(leaves) |->
                    IF \E k \in 1..Len(masks) : masks[k] = LeafRef(i)
                    THEN [leaves[i] EXCEPT !.cached_result = None]
                    ELSE leaves[i]]
    /\ UNCHANGED <<env, datasets>>

\* the constructor call shared by the ways of building a combined mask
Combine(op, masks, operator) ==
    /\ IF CombinedInitRaises(masks, operator)
       THEN /\ combos' = combos
            /\ result' = [Call(op, NoRef, "ValueError")
                             EXCEPT !.operator = operator, !.nmasks = Len(masks)]
       ELSE /\ combos' = Append(combos, NewCombinedMask(masks, operator))
            /\ result' = [Call(op, ComboRef(Len(combos) + 1), "ok")
                             EXCEPT !.operator = operator, !.nmasks = Len(masks)]
    /\ UNCHANGED <<leaves, env, datasets>>

\* CHUKAuxilaryDataCombinedMask(*masks, operator=operator)
CombinedMask(masks, operator) ==
    Combine("CHUKAuxilaryDataCombinedMask", masks, operator)

\* self.or_mask(*others)
or_mask(self, others) == Combine("or_mask", <<self>> \o others, "or")

\* self.and_mask(*others)
and_mask(self, others) == Combine("and_mask", <<self>> \o others, "and")

\* self.not_mask()
not_mask(self) == Combine("not_mask", <<self>>, "not")

\* masks[0] of an empty argument tuple
IndexError(op) ==
    /\ result' = Call(op, NoRef, "IndexError")
    /\ UNCHANGED <<leaves, combos, env, datasets>>

\* CHUKAuxilaryUtils.combine_masks_and(*masks) : masks[0].and_mask(*masks[1:])
combine_masks_and(masks) ==
    IF Len(masks) = 0 THEN IndexError("combine_masks_and")
    ELSE Combine("combine_masks_and", <<masks[1]>> \o Tail(masks), "and")

\* CHUKAuxilaryUtils.combine_masks_or(*masks) : masks[0].or_mask(*masks[1:])
combine_masks_or(masks) ==
    IF Len(masks) = 0 THEN IndexError("combine_masks_or")
    ELSE Combine("combine_masks_or", <<masks[1]>> \o Tail(masks), "or")

\* CHUKAuxilaryUtils.not_mask(mask) : mask.not_mask()
utils_not_mask(mask) == Combine("CHUKAuxilaryUtils.not_mask", <<mask>>, "not")

\* ------------------------------------------------------------- datasets

\* CHUKMetadata.expected_dataset_metadata_keys : a set literal, in which
\* "Conventions", "product_version" and "summary" are written twice
expected_dataset_metadata_keys ==
    {"title", "institution", "product_version", "Conventions", "summary",
     "license", "history", "references", "tracking_id", "Conventions",
     "product_version", "format_version", "summary", "keywords", "id",
     "naming_authority", "comment", "date_created", "creator_url",
     "creator_name", "creator_email", "project", "geospatial_lat_min",
     "geospatial_lat_max", "geospatial_lon_min", "geospatial_lon_max",
     "geospatial_vertical_min", "geospatial_vertical_max",
     "time_coverage_start", "time_coverage_end", "time_coverage_duration",
     "time_coverage_resolution", "platform", "sensor", "spatial_resolution",
     "geospatial_lat_units", "geospatial_lon_units",
     "geospatial_lat_resolution", "geospatial_lon_resolution",
     "key_variables"}

\* an xarray.Dataset as far as the checks read it: ds.attrs, and the shape
\* of ds[v] for each name v the dataset knows (a variable or a dimension)
NewDataset(attrs, shapes) == [attrs |-> attrs, shapes |-> shapes]

\* whether ds[v] exists; ds[v] raises KeyError otherwise
HasVar(ds, v) == v \in DOMAIN ds.shapes

\* CHUKMetadata.check, were it to test "key in ds.attrs"
MetadataCheck_Present(ds) ==
    [warnings |-> SetToBag({<<"missing_global_attribute", key>> :
                              key \in {k \in expected_dataset_metadata_keys :
                                          k \in DOMAIN ds.attrs}}),
     errors |-> <<>>]

\* CHUKMetadata.check(ds) : (warnings, errors). The loop runs over a set of
\* str, whose order differs from run to run, so the list of warnings is kept
\* up to order, as a bag.
MetadataCheck(ds) ==
    [warnings |-> SetToBag({<<"missing_global_attribute", key>> :
                              key \in {k \in expected_dataset_metadata_keys :
                                          k \notin DOMAIN ds.attrs}}),
     errors |-> <<>>]

\* the test of the loop of CHUKDataSetUtils.check with "==" for "!="
BadShape_Equal(actual_shape, expected_shape) == actual_shape = expected_shape

\* "if actual_shape != expected_shape"
BadShape(actual_shape, expected_shape) == actual_shape # expected_shape

RECURSIVE CheckShapes(_, _, _, _)
\* the loop "for v in ["x", "y"]" of CHUKDataSetUtils.check : ds[v] and
\* self.chuk_grid_ds[v] raise KeyError for a name the dataset does not know
CheckShapes(ds, chuk_grid_ds, vs, errors) ==
    IF vs = <<>> THEN [status |-> "ok", errors |-> errors]
    ELSE LET v == Head(vs)
         IN  IF ~HasVar(ds, v) \/ ~HasVar(chuk_grid_ds, v)
             THEN [status |-> "KeyError", errors |-> errors]
             ELSE LET actual_shape == ds.shapes[v]
                      expected_shape == chuk_grid_ds.shapes[v]
                  IN  CheckShapes(ds, chuk_grid_ds, Tail(vs),
                         IF BadShape(actual_shape, expected_shape)
                         THEN Append(errors, <<"bad_shape",
                                               <<v, actual_shape, expected_shape>>>>)
                         ELSE errors)

\* CHUKMetadata.check(ds) for the i-th dataset the caller holds
CHUKMetadata_check(i) ==
    /\ LET r == MetadataCheck(datasets[i])
       IN  result' = [Call("CHUKMetadata.check", NoRef, "ok")
                         EXCEPT !.dataset = i,
                                !.warnings = r.warnings,
                                !.errors = r.errors]
    /\ UNCHANGED <<leaves, combos, env, datasets>>

\* CHUKDataSetUtils.check(ds) for the i-th dataset the caller holds
check(i) ==
    /\ LET m == MetadataCheck(datasets[i])
           r == CheckShapes(datasets[i], env.chuk_grid_ds, <<"x", "y">>, m.errors)
       IN  result' = IF r.status = "ok"
                     THEN [Call("CHUKDataSetUtils.check", NoRef, "ok")
                             EXCEPT !.dataset = i,
                                    !.warnings = m.warnings,
                                    !.errors = r.errors]
                     ELSE [Call("CHUKDataSetUtils.check", NoRef, r.status)
                             EXCEPT !.dataset = i]
    /\ UNCHANGED <<leaves, combos, env, datasets>>

\* ----------------------------------------------------- attribute values

\* An object of the interpreter, as far as to_json reads it: its type, and
\* by type the number it holds (num), the keys and the values of a dict or
\* the elements of a list or tuple (items, the places of other objects in
\* the heap), the element type and the elements of a one-dimensional
\* numpy array (dtype, data).
Object(type) ==
    [type |-> type, dtype |-> "", num |-> 0,
     keys |-> <<>>, items |-> <<>>, data |-> <<>>]

\* the heap is the sequence of the objects made so far; a new object takes
\* the next place
Alloc(heap, o) == [heap |-> Append(heap, o), id |-> Len(heap) + 1]

RECURSIVE AllocAll(_, _)
AllocAll(heap, os) ==
    IF os = <<>> THEN [heap |-> heap, ids |-> <<>>]
    ELSE LET a == Alloc(heap, Head(os))
             r == AllocAll(a.heap, Tail(os))
         IN  [heap |-> r.heap, ids |-> <<a.id>> \o r.ids]

\* copy.deepcopy, were it to hand back the object it was given
deepcopy_Alias(heap, x) == [heap |-> heap, id |-> x]

RECURSIVE deepcopy(_, _)
RECURSIVE deepcopyAll(_, _)
\* copy.deepcopy(x) : str, int and float are returned as they are, a tuple
\* is returned as it is when none of its elements had to be copied, every
\* other object is made anew with copies of its elements
deepcopy(heap, x) ==
    LET o == heap[x]
        r == deepcopyAll(heap, o.items)
    IN  IF o.type \in {"str", "int", "float"} THEN [heap |-> heap, id |-> x]
        ELSE IF o.type = "tuple" /\ r.ids = o.items THEN [heap |-> r.heap, id |-> x]
        ELSE Alloc(r.heap, [o EXCEPT !.items = r.ids])

deepcopyAll(heap, xs) ==
    IF xs = <<>> THEN [heap |-> heap, ids |-> <<>>]
    ELSE LET c == deepcopy(heap, Head(xs))
             r == deepcopyAll(c.heap, Tail(xs))
         IN  [heap |-> r.heap, ids |-> <<c.id>> \o r.ids]

\* numpy's element types that hold a real number
FloatDtypes == {"float16", "float32", "float64"}

\* ndarray.tolist() : a new list of new Python numbers, float for an array
\* of reals and int for an array of integers
tolist(heap, x) ==
    LET o == heap[x]
        py == IF o.dtype \in FloatDtypes THEN "float" ELSE "int"
        r == AllocAll(heap, [k \in 1..Len(o.data) |->
                                [Object(py) EXCEPT !.num = o.data[k]]])
    IN  Alloc(r.heap, [Object("list") EXCEPT !.items = r.ids])

RECURSIVE decode4json(_, _)
RECURSIVE DecodeItems(_, _, _)
\* CHUKMetadata.__decode4json(o) : a dict or a list is walked and each entry
\* is overwritten in place with what the walk returns for it; np.float32
\* becomes a float; np.int32, np.int16 and np.int8 become an int; an array
\* is turned into a list and walked; anything else is returned as it is
decode4json(heap, x) ==
    LET o == heap[x]
    IN  IF o.type = "dict" THEN DecodeItems(heap, x, 1)
        ELSE IF o.type = "list" THEN DecodeItems(heap, x, 1)
        ELSE IF o.type = "np.float32"
        THEN Alloc(heap, [Object("float") EXCEPT !.num = o.num])
        ELSE IF o.type = "np.int32" \/ o.type = "np.int16" \/ o.type = "np.int8"
        THEN Alloc(heap, [Object("int") EXCEPT !.num = o.num])
        ELSE IF o.type = "np.ndarray"
        THEN LET l == tolist(heap, x) IN decode4json(l.heap, l.id)
        ELSE [heap |-> heap, id |-> x]

\* the loops "o[key] = __decode4json(o[key])" and "o[idx] = __decode4json(o[idx])"
DecodeItems(heap, x, idx) ==
    IF idx > Len(heap[x].items) THEN [heap |-> heap, id |-> x]
    ELSE LET r == decode4json(heap, heap[x].items[idx])
         IN  DecodeItems([r.heap EXCEPT ![x].items[idx] = r.id], x, idx + 1)

\* an xarray.Dataset as far as to_json reads it: the place of ds.attrs and,
\* for each variable, the place of ds[name].attrs
Dataset(attrs, variables) == [attrs |-> attrs, variables |-> variables]

\* CHUKMetadata.to_json(ds, for_variable) : ds[for_variable] raises KeyError
\* for a name the dataset does not know
ToJson(heap, ds, for_variable) ==
    IF for_variable \notin DOMAIN ds.variables
    THEN [status |-> "KeyError", heap |-> heap, id |-> 0]
    ELSE LET da_attrs == deepcopy(heap, ds.variables[for_variable])
             variable_metadata ==
                 Alloc(da_attrs.heap, [Object("dict") EXCEPT
                                          !.keys = <<for_variable>>,
                                          !.items = <<da_attrs.id>>])
             ds_attrs == deepcopy(variable_metadata.heap, ds.attrs)
             metadata ==
                 Alloc(ds_attrs.heap, [Object("dict") EXCEPT
                                          !.keys = <<"__variable__", "__dataset__">>,
                                          !.items = <<variable_metadata.id, ds_attrs.id>>])
             r == decode4json(metadata.heap, metadata.id)
         IN  [status |-> "ok", heap |-> r.heap, id |-> r.id]

\* CHUKMetadata.to_json(ds, for_variable) for the i-th dataset the caller holds
to_json(i, for_variable) ==
    /\ LET r == ToJson(env.heap, datasets[i], for_variable)
       IN  /\ env' = [env EXCEPT !.heap = r.heap]
           /\ result' = [Call("CHUKMetadata.to_json", NoRef, r.status)
                            EXCEPT !.dataset = i, !.object = r.id]
    /\ UNCHANGED <<leaves, combos, datasets>>


\* ------------------------------------------------------ create_new_dataset

\* self.__extend_attrs, were it to take every attribute as not required
extend_attrs_NoneRequired(attrs, key, value, required) ==
    IF value = None THEN [status |-> "ValueError", attrs |-> attrs]
    ELSE IF value = Some("") THEN [status |-> "ok", attrs |-> attrs]
    ELSE [status |-> "ok", attrs |-> (key :> value[1]) @@ attrs]

\* self.__extend_attrs, were it to store the empty string as well
extend_attrs_KeepEmpty(attrs, key, value, required) ==
    IF (required /\ value = Some("")) \/ value = None
    THEN [status |-> "ValueError", attrs |-> attrs]
    ELSE [status |-> "ok", attrs |-> (key :> value[1]) @@ attrs]

\* CHUKDataSetUtils.__extend_attrs(attrs, key, value, required) : the test
\* "required and value == "" or value is None" reads as
\* "(required and value == "") or (value is None)"
extend_attrs(attrs, key, value, required) ==
    IF (required /\ value = Some("")) \/ value = None
    THEN [status |-> "ValueError", attrs |-> attrs]
    ELSE IF value = Some("") \/ value = None
         THEN [status |-> "ok", attrs |-> attrs]
         ELSE [status |-> "ok", attrs |-> (key :> value[1]) @@ attrs]

\* the calls of __extend_attrs in create_new_dataset, in their order; a call
\* without required, or with required=False, takes the attribute as optional
ExtendCalls ==
    <<[key |-> "title", required |-> TRUE],
      [key |-> "institution", required |-> TRUE],
      [key |-> "source", required |-> FALSE],
      [key |-> "history", required |-> FALSE],
      [key |-> "references", required |-> FALSE],
      [key |-> "tracking_id", required |-> TRUE],
      [key |-> "Conventions", required |-> FALSE],
      [key |-> "product_version", required |-> TRUE],
      [key |-> "format_version", required |-> FALSE],
      [key |-> "summary", required |-> FALSE],
      [key |-> "keywords", required |-> FALSE],
      [key |-> "id", required |-> FALSE],
      [key |-> "naming_authority", required |-> FALSE],
      [key |-> "keywords_vocabulary", required |-> FALSE],
      [key |-> "cdm_data_type", required |-> FALSE],
      [key |-> "comment", required |-> FALSE],
      [key |-> "date_created", required |-> FALSE],
      [key |-> "creator_name", required |-> FALSE],
      [key |-> "creator_url", required |-> FALSE],
      [key |-> "creator_email", required |-> FALSE],
      [key |-> "project", required |-> FALSE],
      [key |-> "geospatial_lat_min", required |-> FALSE],
      [key |-> "geospatial_lat_max", required |-> FALSE],
      [key |-> "geospatial_lon_min", required |-> FALSE],
      [key |-> "geospatial_lon_max", required |-> FALSE],
      [key |-> "geospatial_vertical_min", required |-> FALSE],
      [key |-> "geospatial_vertical_max", required |-> FALSE],
      [key |-> "time_coverage_start", required |-> FALSE],
      [key |-> "time_coverage_end", required |-> FALSE],
      [key |-> "time_coverage_duration", required |-> FALSE],
      [key |-> "time_coverage_resolution", required |-> FALSE],
      [key |-> "standard_name_vocabulary", required |-> FALSE],
      [key |-> "license", required |-> FALSE],
      [key |-> "platform", required |-> FALSE],
      [key |-> "sensor", required |-> FALSE],
      [key |-> "spatial_resolution", required |-> FALSE],
      [key |-> "geospatial_lat_units", required |-> FALSE],
      [key |-> "geospatial_lon_units", required |-> FALSE],
      [key |-> "geospatial_lon_resolution", required |-> FALSE],
      [key |-> "geospatial_lat_resolution", required |-> FALSE],
      [key |-> "key_variables", required |-> FALSE],
      [key |-> "acknowledgement", required |-> FALSE],
      [key |-> "publisher_name", required |-> FALSE],
      [key |-> "publisher_url", required |-> FALSE],
      [key |-> "publisher_email", required |-> FALSE]>>

\* the defaults of the parameters of create_new_dataset that are not ""
NonEmptyDefaults ==
    ("institution" :> "EOCIS CHUK") @@
    ("Conventions" :> "CF-1.10") @@
    ("project" :> "Earth Observation Climate Information Service (EOCIS)") @@
    ("geospatial_lat_min" :> "47.089") @@
    ("geospatial_lat_max" :> "61.133") @@
    ("geospatial_lon_min" :> "-15.374") @@
    ("geospatial_lon_max" :> "4.750") @@
    ("geospatial_vertical_min" :> "0") @@
    ("geospatial_vertical_max" :> "0") @@
    ("license" :> "Creative Commons Attribution 4.0 International (CC-BY 4.0 license)") @@
    ("spatial_resolution" :> "100m") @@
    ("geospatial_lat_units" :> "degrees_north") @@
    ("geospatial_lon_units" :> "degrees_east") @@
    ("geospatial_lon_resolution" :> "0.0009") @@
    ("geospatial_lat_resolution" :> "0.00086") @@
    ("acknowledgement" :> "Funded by UK EOCIS. Use of these data should acknowledge EOCIS") @@
    ("publisher_url" :> "https://eocis.org") @@
    ("publisher_name" :> "EOCIS") @@
    ("publisher_email" :> "EOCIS@reading.ac.uk")

\* the names of the parameters that become attributes
ParameterNames == {ExtendCalls[k].key : k \in 1..Len(ExtendCalls)}

\* the value create_new_dataset works with: the keyword argument, or the
\* default of the parameter when the caller passes none
ArgValue(args, key) ==
    IF key \in DOMAIN args THEN args[key]
    ELSE IF key \in DOMAIN NonEmptyDefaults THEN Some(NonEmptyDefaults[key])
    ELSE Some("")

RECURSIVE ExtendAll(_, _, _)
\* lines 222-267
ExtendAll(attrs, args, calls) ==
    IF calls = <<>> THEN [status |-> "ok", attrs |-> attrs]
    ELSE LET c == Head(calls)
             r == extend_attrs(attrs, c.key, ArgValue(args, c.key), c.required)
         IN  IF r.status # "ok" THEN r ELSE ExtendAll(r.attrs, args, Tail(calls))

RECURSIVE CopyVars(_, _, _)
\* the loop "ds[copyvar] = self.chuk_grid_ds[copyvar]"
CopyVars(shapes, chuk_grid_ds, copyvars) ==
    IF copyvars = <<>> THEN [status |-> "ok", shapes |-> shapes]
    ELSE IF ~HasVar(chuk_grid_ds, Head(copyvars))
         THEN [status |-> "KeyError", shapes |-> shapes]
         ELSE CopyVars((Head(copyvars) :> chuk_grid_ds.shapes[Head(copyvars)]) @@ shapes,
                       chuk_grid_ds, Tail(copyvars))

\* CHUKDataSetUtils.create_new_dataset(include_lon_lat=..., **args,
\* **other_attributes) : ds.rio.write_crs returns the dataset with the
\* coordinate reference system written to the variable crsOSGB
CreateNewDataset(chuk_grid_ds, args, include_lon_lat, other_attributes) ==
    LET a == ExtendAll(<<>>, args, ExtendCalls)
        attrs == other_attributes @@ a.attrs
        copyvars == <<"x", "y", "x_bnds", "y_bnds", "crsOSGB">>
                       \o (IF include_lon_lat THEN <<"lon", "lat">> ELSE <<>>)
        c == CopyVars(<<>>, chuk_grid_ds, copyvars)
    IN  IF a.status # "ok" THEN [status |-> a.status, ds |-> None]
        ELSE IF c.status # "ok" THEN [status |-> c.status, ds |-> None]
        ELSE [status |-> "ok", ds |-> Some(NewDataset(attrs, c.shapes))]

\* ds = utils.create_new_dataset(...) : the caller holds the dataset that is
\* returned
create_new_dataset(args, include_lon_lat, other_attributes) ==
    /\ LET r == CreateNewDataset(env.chuk_grid_ds, args, include_lon_lat, other_attributes)
       IN  /\ datasets' = IF r.status = "ok" THEN Append(datasets, r.ds[1]) ELSE datasets
           /\ result' = [Call("create_new_dataset", NoRef, r.status)
                            EXCEPT !.dataset = IF r.status = "ok" THEN Len(datasets) + 1 ELSE 0,
                                   !.args = args,
                                   !.include_lon_lat = include_lon_lat,
                                   !.other_attributes = other_attributes]
    /\ UNCHANGED <<leaves, combos, env>>

\* ------------------------------------------------------------ add_variable

\* a dataset together with the dimension names and the attributes of its
\* variables, for those of its variables that the model follows
WithVariables(ds, dims, var_attrs) ==
    [attrs |-> ds.attrs, shapes |-> ds.shapes, dims |-> dims, var_attrs |-> var_attrs]

\* data.shape[1:]
Rest(shape) == IF shape = <<>> THEN <<>> ELSE Tail(shape)

\* the dimension names add_variable binds to dims (lines 300-308): the two
\* tests of the else branch are the same test, and when it fails no name
\* is bound
ChooseDims(shape, expected_shape) ==
    IF Len(shape) = 2 THEN Some(<<"y", "x">>)
    ELSE IF Rest(shape) = expected_shape THEN Some(<<"time", "y", "x">>)
    ELSE IF Rest(shape) = expected_shape THEN Some(<<"y", "x", "time">>)
    ELSE None

\* the dataset without the variable of that name
Without(ds, variable_name) ==
    LET keep == DOMAIN ds.dims \ {variable_name}
    IN  [ds EXCEPT !.shapes = [v \in DOMAIN ds.shapes \ {variable_name} |-> ds.shapes[v]],
                   !.dims = [v \in keep |-> ds.dims[v]],
                   !.var_attrs = [v \in DOMAIN ds.var_attrs \ {variable_name} |->
                                     ds.var_attrs[v]]]

\* xarray refuses a variable one of whose dimensions has another length in
\* the dataset
Conflicts(ds, dims, shape) ==
    \E v \in DOMAIN ds.dims : \E j \in 1..Len(ds.dims[v]), k \in 1..Len(dims) :
       ds.dims[v][j] = dims[k] /\ ds.shapes[v][j] # shape[k]

\* CHUKDataSetUtils.add_variable(to_dataset, data, variable_name, ...) for
\* data of the given shape; named is the set of standard_name, long_name,
\* units and source that the caller passes
AddVariable(chuk_grid_ds, to_dataset, shape, variable_name, named) ==
    LET expected_shape == chuk_grid_ds.shapes["lat"]
        dims == ChooseDims(shape, expected_shape)
        attrs == [k \in {"grid_mapping"} \cup named |->
                     IF k = "grid_mapping" THEN "crsOSGB" ELSE "v"]
        others == Without(to_dataset, variable_name)
    IN  IF Len(shape) = 2 /\ shape # expected_shape
        THEN [status |-> "ValueError", ds |-> to_dataset]
        ELSE IF dims = None
        THEN [status |-> "UnboundLocalError", ds |-> to_dataset]
        ELSE IF Conflicts(others, dims[1], shape)
        THEN [status |-> "ValueError", ds |-> to_dataset]
        ELSE [status |-> "ok",
              ds |-> [others EXCEPT
                         !.shapes = (variable_name :> shape) @@ others.shapes,
                         !.dims = (variable_name :> dims[1]) @@ others.dims,
                         !.var_attrs = (variable_name :> attrs) @@ others.var_attrs]]

\* utils.add_variable(ds, data, variable_name, ...) on the i-th dataset the
\* caller holds; the dataset is updated in place
add_variable(i, shape, variable_name, named) ==
    /\ LET r == AddVariable(env.chuk_grid_ds, datasets[i], shape, variable_name, named)
       IN  /\ datasets' = [datasets EXCEPT ![i] = r.ds]
           /\ result' = [Call("add_variable", NoRef, r.status)
                            EXCEPT !.dataset = i,
                                   !.shape = shape,
                                   !.variable_name = variable_name]
    /\ UNCHANGED <<leaves, combos, env>>

\* ------------------------------------------------------------ load and save

\* CHUKDataSetUtils.add_latlon(ds) : the dataset is modified in place and
\* the method has no return statement, so the call evaluates to None
AddLatLon(chuk_grid_ds, ds) ==
    [object |-> [ds EXCEPT !.shapes = ("lon" :> chuk_grid_ds.shapes["lon"])
                                         @@ ("lat" :> chuk_grid_ds.shapes["lat"])
                                         @@ ds.shapes],
     returns |-> None]

\* CHUKDataSetUtils.add_latlon_bnds(ds) : likewise
AddLatLonBnds(chuk_grid_ds, ds) ==
    [object |-> [ds EXCEPT !.shapes = ("lon_bnds" :> chuk_grid_ds.shapes["lon_bnds"])
                                         @@ ("lat_bnds" :> chuk_grid_ds.shapes["lat_bnds"])
                                         @@ ds.shapes],
     returns |-> None]

\* the statements "if add_latlon: ds = self.add_latlon(ds)" and
\* "if add_latlon_bnds: ds = self.add_latlon_bnds(ds)" of load and of save:
\* object is the dataset the method was given, as the statements leave it,
\* and ds is what the local name ds is bound to after them; assigning an
\* item of None raises TypeError
AddBoth(chuk_grid_ds, ds, add_latlon, add_latlon_bnds) ==
    LET a == IF add_latlon THEN AddLatLon(chuk_grid_ds, ds)
             ELSE [object |-> ds, returns |-> Some(ds)]
    IN  IF ~add_latlon_bnds THEN [status |-> "ok", object |-> a.object, ds |-> a.returns]
        ELSE IF a.returns = None
             THEN [status |-> "TypeError", object |-> a.object, ds |-> None]
             ELSE LET b == AddLatLonBnds(chuk_grid_ds, a.object)
                  IN  [status |-> "ok", object |-> b.object, ds |-> b.returns]

\* ds = utils.load(from_path, add_latlon, add_latlon_bnds) : the caller
\* holds what is returned when it is a dataset
load(from_path, add_latlon, add_latlon_bnds) ==
    /\ LET opened == from_path \in DOMAIN env.disk
           r == AddBoth(env.chuk_grid_ds, env.disk[from_path], add_latlon, add_latlon_bnds)
           status == IF ~opened THEN "FileNotFoundError" ELSE r.status
           returned == IF status # "ok" THEN ""
                       ELSE IF r.ds = None THEN "None" ELSE "Dataset"
       IN  /\ datasets' = IF returned = "Dataset" THEN Append(datasets, r.ds[1])
                          ELSE datasets
           /\ result' = [Call("load", NoRef, status)
                            EXCEPT !.path = from_path,
                                   !.add_latlon = add_latlon,
                                   !.add_latlon_bnds = add_latlon_bnds,
                                   !.returned = returned,
                                   !.dataset = IF returned = "Dataset"
                                               THEN Len(datasets) + 1 ELSE 0]
    /\ UNCHANGED <<leaves, combos, env>>

\* utils.save(ds, to_path, add_latlon, add_latlon_bnds) for the i-th dataset
\* the caller holds: ds.to_netcdf is called on what the local name ds is
\* bound to, and None has no such attribute. The encodings fix the chunks
\* and the compression of the file, not what it holds.
save(i, to_path, add_latlon, add_latlon_bnds) ==
    /\ LET r == AddBoth(env.chuk_grid_ds, datasets[i], add_latlon, add_latlon_bnds)
           status == IF r.status # "ok" THEN r.status
                     ELSE IF r.ds = None THEN "AttributeError" ELSE "ok"
       IN  /\ datasets' = [datasets EXCEPT ![i] = r.object]
           /\ env' = IF status = "ok"
                     THEN [env EXCEPT !.disk = (to_path :> r.ds[1]) @@ env.disk]
                     ELSE env
           /\ result' = [Call("save", NoRef, status)
                            EXCEPT !.path = to_path,
                                   !.add_latlon = add_latlon,
                                   !.add_latlon_bnds = add_latlon_bnds,
                                   !.dataset = i]
    /\ UNCHANGED <<leaves, combos>>

\* ------------------------------------------------------ specifications

\* what the caller passes as mask_values: a str, or a list of up to n str
MaskValueArgs(n) ==
    {[type |-> "str", value |-> t] : t \in Tokens}
        \cup {[type |-> "list", value |-> q] : q \in SeqsUpTo(Tokens, n)}

\* the leaf has room for the tokens the call would select
Room(i, ts, n) ==
    \/ Len(leaves[i].mask_values) + Len(ts) <= n
    \/ AddAll(leaves[i], ts).status # "ok"

NextLeafMask(maxLeaves, maxSel) ==
    \/ /\ Len(leaves) + Len(combos) < maxLeaves
       /\ \E d \in env.files, b \in BOOLEAN : Construct(d, b)
    \/ /\ Len(leaves) + Len(combos) < maxLeaves
       /\ \E d \in env.files, v \in MaskValueArgs(maxSel), b \in BOOLEAN :
             create_mask(d, v, b)
    \/ \E i \in 1..Len(leaves), t \in Tokens :
          Room(i, <<t>>, maxSel) /\ add_mask_value(i, t)

NextMask ==
    \/ \E r \in Refs(leaves, combos) : to_array(r)
    \/ \E r \in Refs(leaves, combos) : count(r)
    \/ \E r \in Refs(leaves, combos) : fraction(r)

HasRoom == Len(leaves) + Len(combos) < MaxMasks

NextCombined ==
    \/ \E q \in SeqsUpTo(Refs(leaves, combos), MaxChildren), o \in OperatorArgs :
          HasRoom /\ CombinedMask(q, o)
    \/ \E r \in Refs(leaves, combos),
          q \in SeqsUpTo(Refs(leaves, combos), MaxChildren - 1) :
          HasRoom /\ or_mask(r, q)
    \/ \E r \in Refs(leaves, combos),
          q \in SeqsUpTo(Refs(leaves, combos), MaxChildren - 1) :
          HasRoom /\ and_mask(r, q)
    \/ \E r \in Refs(leaves, combos) : HasRoom /\ not_mask(r)
    \/ \E q \in SeqsUpTo(Refs(leaves, combos), MaxChildren) :
          HasRoom /\ combine_masks_and(q)
    \/ \E q \in SeqsUpTo(Refs(leaves, combos), MaxChildren) :
          HasRoom /\ combine_masks_or(q)
    \/ \E r \in Refs(leaves, combos) : HasRoom /\ utils_not_mask(r)

\* Spec: leaf masks on one raster file and their combinations
Next == NextLeafMask(MaxMasks, MaxSel) \/ NextMask \/ NextCombined

Spec == Init /\ [][Next]_vars

\* SpecLeaf: leaf masks alone, on either raster file
InitLeaf ==
    /\ leaves = <<>>
    /\ combos = <<>>
    /\ datasets = <<>>
    /\ env = [files |-> Datasets, layout |-> "unindexed", os |-> "posix"]
    /\ result = Call("start", NoRef, "ok")

NextLeaf == NextLeafMask(LeafMaxLeaves, LeafMaxSel) \/ NextMask

SpecLeaf == InitLeaf /\ [][NextLeaf]_vars

\* SpecShapes: leaf masks on rasters of two extents and their AND / OR
\* combinations, under each behaviour of the installed xarray and numpy
InitShapes ==
    /\ leaves = <<>>
    /\ combos = <<>>
    /\ datasets = <<>>
    /\ env \in {[files |-> Datasets, layout |-> e, os |-> "posix"] : e \in Envs}
    /\ result = Call("start", NoRef, "ok")

NextShapes ==
    \/ \E d \in env.files, v \in MaskValueArgs(ShapesMaxSel), b \in BOOLEAN :
          Len(leaves) + Len(combos) < ShapesMaxLeaves /\ create_mask(d, v, b)
    \/ \E r \in Refs(leaves, combos) : to_array(r)
    \/ \E r \in Refs(leaves, combos),
          q \in SeqsUpTo(Refs(leaves, combos), ShapesMaxChildren - 1) :
          Len(leaves) + Len(combos) < ShapesMaxMasks /\ or_mask(r, q)
    \/ \E r \in Refs(leaves, combos),
          q \in SeqsUpTo(Refs(leaves, combos), ShapesMaxChildren - 1) :
          Len(leaves) + Len(combos) < ShapesMaxMasks /\ and_mask(r, q)

SpecShapes == InitShapes /\ [][NextShapes]_vars

\* SpecResolve: __get_matching_keys as a function of the declared category
\* names, the token and the platform
ResolveNames == {Dw, Cw, Ur, <<"d", "w">>, <<"?", "w">>}

ResolveTokens ==
    ResolveNames \cup {<<"*", "w">>, <<"D", "*">>, <<"d", "*">>,
                       <<"[", "C", "D", "]", "w">>, <<"[", "!", "D", "]", "w">>,
                       <<"[", "D">>, <<"X">>}

InitResolve ==
    /\ leaves = <<>>
    /\ combos = <<>>
    /\ datasets = <<>>
    /\ env \in {[files |-> {}, layout |-> "unindexed", os |-> o, flag_meanings |-> m] :
                   o \in {"posix", "nt"}, m \in SeqsUpTo(ResolveNames, ResolveMaxNames)}
    /\ result = Call("start", NoRef, "ok")

\* self.__get_matching_keys(value_or_pattern) on a mask whose raster declares
\* env.flag_meanings with the codes 1, 2, ...
call_get_matching_keys(value_or_pattern) ==
    /\ LET values == [i \in 1..Len(env.flag_meanings) |-> i]
           lookup == MakeLookup(env.flag_meanings, values)
       IN  result' = [Call("__get_matching_keys", NoRef, "ok")
                         EXCEPT !.token = value_or_pattern,
                                !.names = get_matching_keys(lookup, value_or_pattern)]
    /\ UNCHANGED <<leaves, combos, env, datasets>>

NextResolve == \E t \in ResolveTokens : call_get_matching_keys(t)

SpecResolve == InitResolve /\ [][NextResolve]_vars

\* SpecNames: the lists of names of leaf masks on the raster that declares
\* a category twice
InitNames ==
    /\ leaves = <<>>
    /\ combos = <<>>
    /\ datasets = <<>>
    /\ env = [files |-> {"strip"}, layout |-> "unindexed", os |-> "posix"]
    /\ result = Call("start", NoRef, "ok")

NextNames ==
    \/ NextLeafMask(NamesMaxLeaves, NamesMaxSel)
    \/ \E i \in 1..Len(leaves) : to_array(LeafRef(i))
    \/ \E i \in 1..Len(leaves) : call_get_all_mask_values(i)
    \/ \E i \in 1..Len(leaves) : call_get_selected_mask_values(i)

SpecNames == InitNames /\ [][NextNames]_vars

\* SpecSeries: masks on a raster that has a time axis
InitSeries ==
    /\ leaves = <<>>
    /\ combos = <<>>
    /\ datasets = <<>>
    /\ env = [files |-> {Series}, layout |-> "unindexed", os |-> "posix"]
    /\ result = Call("start", NoRef, "ok")

NextSeries ==
    \/ \E d \in env.files, v \in MaskValueArgs(SeriesMaxSel), b \in BOOLEAN :
          Len(leaves) + Len(combos) < SeriesMaxLeaves /\ create_mask(d, v, b)
    \/ \E r \in Refs(leaves, combos) : count(r)
    \/ \E r \in Refs(leaves, combos) : fraction(r)
    \/ \E r \in Refs(leaves, combos),
          q \in SeqsUpTo(Refs(leaves, combos), SeriesMaxChildren - 1) :
          Len(leaves) + Len(combos) < SeriesMaxMasks /\ or_mask(r, q)
    \/ \E r \in Refs(leaves, combos),
          q \in SeqsUpTo(Refs(leaves, combos), SeriesMaxChildren - 1) :
          Len(leaves) + Len(combos) < SeriesMaxMasks /\ and_mask(r, q)
    \/ \E r \in Refs(leaves, combos) :
          Len(leaves) + Len(combos) < SeriesMaxMasks /\ not_mask(r)

SpecSeries == InitSeries /\ [][NextSeries]_vars

\* SpecCheck: the checks of a dataset against the required attributes and
\* the reference grid

\* the required attributes that the datasets tried may lack
CheckVariedKeys == {"title", "institution", "key_variables"}

\* the attribute names of the datasets tried: none at all, or the required
\* ones but some, with or without an attribute that is not required
CheckAttrKeys ==
    {{}} \cup {(expected_dataset_metadata_keys \ M) \cup X :
                 M \in SUBSET CheckVariedKeys, X \in SUBSET {"extra"}}

\* the shapes of ds["x"] and ds["y"] tried
CheckShapeChoices == {<<n>> : n \in 2..CheckMaxSize}

InitCheck ==
    /\ leaves = <<>>
    /\ combos = <<>>
    /\ \E g \in [{"x", "y"} -> CheckShapeChoices] :
          env = [files |-> {}, layout |-> "unindexed", os |-> "posix",
                 chuk_grid_ds |-> NewDataset([k \in {"Conventions"} |-> "v"], g)]
    /\ \E K \in CheckAttrKeys, D \in SUBSET {"x", "y"} :
          \E sh \in [D -> CheckShapeChoices] :
             datasets = <<NewDataset([k \in K |-> "v"], sh)>>
    /\ result = Call("start", NoRef, "ok")

NextCheck ==
    \/ \E i \in 1..Len(datasets) : CHUKMetadata_check(i)
    \/ \E i \in 1..Len(datasets) : check(i)

SpecCheck == InitCheck /\ [][NextCheck]_vars

\* SpecJson: to_json on a dataset whose global attributes or whose variable's
\* attributes hold one value of each kind and nesting

\* the types of the attribute values that are not containers
JsonScalarTypes ==
    {"str", "float", "int", "np.float16", "np.float32", "np.float64",
     "np.int8", "np.int16", "np.int32", "np.int64", "np.uint8"}

Scalar(type) == [Object(type) EXCEPT !.num = 1]

Array(dtype, data) == [Object("np.ndarray") EXCEPT !.dtype = dtype, !.data = data]

\* a container written with its elements in it rather than their places
Container(type, keys, items) == [Object(type) EXCEPT !.keys = keys, !.items = items]

RECURSIVE JsonValues(_)
\* the attribute values of nesting up to depth
JsonValues(depth) ==
    IF depth = 0
    THEN {Scalar(t) : t \in JsonScalarTypes}
            \cup {Array("float32", <<1, 2>>), Array("int64", <<3>>)}
    ELSE LET V == JsonValues(depth - 1)
         IN  V \cup {Container("list", <<>>, <<v>>) : v \in V}
               \cup {Container("list", <<>>, <<Scalar("np.int8"), v>>) : v \in V}
               \cup {Container("tuple", <<>>, <<v>>) : v \in V}
               \cup {Container("dict", <<"k">>, <<v>>) : v \in V}

RECURSIVE Build(_, _)
RECURSIVE BuildAll(_, _)
\* the heap after the value is made in it, elements first
Build(heap, value) ==
    LET r == BuildAll(heap, value.items)
    IN  Alloc(r.heap, [value EXCEPT !.items = r.ids])

BuildAll(heap, values) ==
    IF values = <<>> THEN [heap |-> heap, ids |-> <<>>]
    ELSE LET b == Build(heap, Head(values))
             r == BuildAll(b.heap, Tail(values))
         IN  [heap |-> r.heap, ids |-> <<b.id>> \o r.ids]

InitJson ==
    /\ leaves = <<>>
    /\ combos = <<>>
    /\ \E side \in {"dataset", "variable"}, v \in JsonValues(JsonMaxDepth) :
          LET plain == Container("dict", <<"units">>, <<Scalar("str")>>)
              rich == Container("dict", <<"a">>, <<v>>)
              ds_attrs == Build(<<>>, IF side = "dataset" THEN rich ELSE plain)
              da_attrs == Build(ds_attrs.heap, IF side = "dataset" THEN plain ELSE rich)
          IN  /\ env = [files |-> {}, layout |-> "unindexed", os |-> "posix",
                        heap |-> da_attrs.heap]
              /\ datasets = <<Dataset(ds_attrs.id, [n \in {"v"} |-> da_attrs.id])>>
    /\ result = Call("start", NoRef, "ok")

NextJson ==
    \E i \in 1..Len(datasets), n \in {"v", "w"} :
       Len(env.heap) <= JsonMaxCells /\ to_json(i, n)

SpecJson == InitJson /\ [][NextJson]_vars

\* SpecCreate: create_new_dataset on the reference grid, called as the unit
\* test calls it but for a few keyword arguments, and the check of the
\* dataset it returns

\* the reference grid of ny rows and nx columns, as far as it is read
ReferenceGrid(ny, nx) ==
    NewDataset([k \in {"Conventions"} |-> "v"],
               ("x" :> <<nx>>) @@ ("y" :> <<ny>>)
                  @@ ("x_bnds" :> <<nx, 2>>) @@ ("y_bnds" :> <<ny, 2>>)
                  @@ ("crsOSGB" :> <<>>)
                  @@ ("lon" :> <<ny, nx>>) @@ ("lat" :> <<ny, nx>>)
                  @@ ("lon_bnds" :> <<ny, nx, 4>>) @@ ("lat_bnds" :> <<ny, nx, 4>>))

\* the keyword arguments of the call in TestDatasetCreation.test1; the
\* tracking_id is a fresh UUID
TestArgs ==
    ("title" :> Some("Distance to the GB Centroid")) @@
    ("product_version" :> Some("1.0")) @@
    ("summary" :> Some("The distance in km using the haversine formula to each CHUK grid location from the centroid of Great Britain")) @@
    ("tracking_id" :> Some("uuid4")) @@
    ("spatial_resolution" :> Some("1km")) @@
    ("format_version" :> Some("EOCIS Data Standards v0.4")) @@
    ("key_variables" :> Some("distance")) @@
    ("creator_email" :> Some("EOCIS@reading.ac.uk")) @@
    ("creator_name" :> Some("EOCIS")) @@
    ("creator_url" :> Some("https://eocis.org")) @@
    ("sensor" :> Some("N/A")) @@
    ("platform" :> Some("N/A")) @@
    ("history" :> Some("Developed for eocis_chuk_api unit tests")) @@
    ("time_coverage_start" :> Some("20220630T000000Z")) @@
    ("time_coverage_end" :> Some("20220630T235959Z")) @@
    ("time_coverage_duration" :> Some("P1Y")) @@
    ("time_coverage_resolution" :> Some("P1Y")) @@
    ("comment" :> Some("For testing purposes only")) @@
    ("references" :> Some("there are no references")) @@
    ("date_created" :> Some("20220630T235959Z")) @@
    ("keywords" :> Some("test")) @@
    ("id" :> Some("TEST_DISTANCES")) @@
    ("naming_authority" :> Some("EOCIS"))

\* the parameters in which the calls tried depart from the test: the four
\* required ones, an optional one the test passes, an optional one it leaves
\* at its default "", and an optional one it leaves at a default that is not ""
CreateVaried ==
    {"title", "institution", "tracking_id", "product_version",
     "summary", "source", "license"}

\* what the caller does with one keyword argument: leaves it out, or passes
\* "" or a string or None
CreateChoices == {"omit", "empty", "str", "None"}

\* the keyword arguments after the changes
Changed(args, changes) ==
    LET keys == (DOMAIN args \cup {k \in DOMAIN changes : changes[k] # "omit"})
                   \ {k \in DOMAIN changes : changes[k] = "omit"}
    IN  [k \in keys |->
            IF k \in DOMAIN changes
            THEN CASE changes[k] = "empty" -> Some("")
                   [] changes[k] = "str" -> Some("v")
                   [] changes[k] = "None" -> None
            ELSE args[k]]

\* the calls tried: the call without arguments and the call of the test,
\* each with up to CreateMaxArgs changes
CreateArgs ==
    {Changed(base, c) :
        base \in {<<>>, TestArgs},
        c \in UNION {[K -> CreateChoices] :
                        K \in {S \in SUBSET CreateVaried : Cardinality(S) <= CreateMaxArgs}}}

\* what the caller passes beside the named parameters
OtherAttributes == {<<>>, ("extra" :> "v"), ("extra" :> "")}

InitCreate ==
    /\ leaves = <<>>
    /\ combos = <<>>
    /\ datasets = <<>>
    /\ \E a \in CreateArgs, b \in BOOLEAN, o \in OtherAttributes :
          env = [files |-> {}, layout |-> "unindexed", os |-> "posix",
                 chuk_grid_ds |-> ReferenceGrid(2, 3),
                 args |-> a, include_lon_lat |-> b, other_attributes |-> o]
    /\ result = Call("start", NoRef, "ok")

\* the caller makes the call it has in mind, and checks the dataset it gets
NextCreate ==
    \/ /\ datasets = <<>>
       /\ create_new_dataset(env.args, env.include_lon_lat, env.other_attributes)
    \/ \E i \in 1..Len(datasets) : check(i)

SpecCreate == InitCreate /\ [][NextCreate]_vars

\* SpecVariable: add_variable on a dataset created on the reference grid

\* the shapes of the data tried: up to VarMaxDims axes of length up to
\* VarMaxSize
DataShapes == UNION {[1..n -> 1..VarMaxSize] : n \in 0..VarMaxDims}

VariableNames == {"distances", "urban_or_suburban"}

NamedAttrs == {{}, {"long_name", "units"}}

InitVariable ==
    /\ leaves = <<>>
    /\ combos = <<>>
    /\ \E nx \in 2..VarMaxSize :
          LET grid == ReferenceGrid(2, nx)
              ds == CreateNewDataset(grid, TestArgs, FALSE, <<>>).ds[1]
          IN  /\ env = [files |-> {}, layout |-> "unindexed", os |-> "posix",
                        chuk_grid_ds |-> grid]
              /\ datasets = <<WithVariables(ds, ("x" :> <<"x">>) @@ ("y" :> <<"y">>),
                                            <<>>)>>
    /\ result = Call("start", NoRef, "ok")

\* the variables of the dataset beside those copied from the grid
Added(ds) == DOMAIN ds.dims \ {"x", "y"}

NextVariable ==
    \E i \in 1..Len(datasets), sh \in DataShapes, n \in VariableNames,
       named \in NamedAttrs :
       /\ Cardinality(Added(datasets[i]) \cup {n}) <= VarMaxVariables
       /\ add_variable(i, sh, n, named)

SpecVariable == InitVariable /\ [][NextVariable]_vars

\* SpecStore: a dataset created on the reference grid and the file it was
\* saved to, loaded and saved with each choice of add_latlon, add_latlon_bnds

Paths == {"distances.nc", "copy.nc"}

InitStore ==
    /\ leaves = <<>>
    /\ combos = <<>>
    /\ LET grid == ReferenceGrid(2, 3)
           ds == CreateNewDataset(grid, TestArgs, FALSE, <<>>).ds[1]
       IN  /\ env = [files |-> {}, layout |-> "unindexed", os |-> "posix",
                     chuk_grid_ds |-> grid, disk |-> ("distances.nc" :> ds)]
           /\ datasets = <<ds>>
    /\ result = Call("start", NoRef, "ok")

NextStore ==
    \/ \E f \in Paths, a \in BOOLEAN, b \in BOOLEAN :
          Len(datasets) < StoreMaxDatasets /\ load(f, a, b)
    \/ \E i \in 1..Len(datasets), f \in Paths, a \in BOOLEAN, b \in BOOLEAN :
          save(i, f, a, b)

SpecStore == InitStore /\ [][NextStore]_vars

\* ----------------------------------------------------------------- claims

\* the category names a token stands for: the name itself when it is one,
\* else the names it matches as a pattern
Resolved(dataset_name, token) ==
    LET names == {FlagMeanings(dataset_name)[k] :
                     k \in 1..Min(Len(FlagMeanings(dataset_name)),
                                  Len(FlagValues(dataset_name)))}
    IN  IF token \in names THEN {token}
        ELSE {n \in names : fnmatch(n, token)}

\* the codes of the categories a token stands for
Codes(dataset_name, token) ==
    {ValueLookup(dataset_name).val[n] : n \in Resolved(dataset_name, token)}

IsLeafCall(ops) == result.op \in ops /\ result.mask.kind = "leaf"

\* C1: the cached grid of a leaf mask is empty or equal to what evaluating
\* the current selection list yields; a new leaf has an empty cache, a
\* successful add_mask_value leaves the cache empty, and to_array, count and
\* fraction leave it populated.
C1_CacheEmptyOrCurrent ==
    /\ \A i \in 1..Len(leaves) :
          \/ leaves[i].cached_result = None
          \/ /\ leaves[i].cached_result[1].data = ComputeMask(leaves[i])
             /\ leaves[i].cached_result[1].shape = Shape(leaves[i].dataset_name)
    /\ (IsLeafCall({"CHUKAuxilaryDataMask", "create_mask"}) /\ result.status = "ok")
          => leaves[result.mask.ix].cached_result = None
    /\ (IsLeafCall({"add_mask_value"}) /\ result.status = "ok")
          => leaves[result.mask.ix].cached_result = None
    /\ IsLeafCall({"to_array", "count", "fraction"})
          => leaves[result.mask.ix].cached_result # None

\* a leaf evaluated with two tokens selected
C1_Witness ==
    \E i \in 1..Len(leaves) :
        /\ Len(leaves[i].mask_values) >= 2
        /\ leaves[i].cached_result # None
        /\ IsLeafCall({"to_array", "count", "fraction"})

\* C3: after add_mask_value(x) has succeeded on a leaf, the next to_array of
\* that leaf is true at every cell whose code belongs to a category matched
\* by x, whatever grid an earlier to_array had cached.
C3_ToArrayAfterAddReflectsToken ==
    [][(/\ IsLeafCall({"add_mask_value"})
        /\ result.status = "ok"
        /\ result'.op = "to_array"
        /\ result'.mask = result.mask)
       => LET d == leaves[result.mask.ix].dataset_name
          IN  \A c \in DOMAIN Da(d) :
                 Da(d)[c] \in Codes(d, result.token)
                    => result'.grid[1].data[c] = PyTrue]_vars

\* to_array has returned a grid for a leaf that was constructed directly
\* and given two tokens by add_mask_value, true at a cell of the token
\* added last
C3_Witness ==
    /\ IsLeafCall({"to_array"})
    /\ LET leaf == leaves[result.mask.ix]
           d == leaf.dataset_name
       IN  /\ leaf.include_missing
           /\ Len(leaf.mask_values) >= 2
           /\ \E c \in DOMAIN Da(d) :
                 /\ Da(d)[c] \in Codes(d, leaf.mask_values[Len(leaf.mask_values)])
                 /\ Da(d)[c] \notin Codes(d, leaf.mask_values[1])
                 /\ result.grid[1].data[c] = PyTrue

\* C4: add_mask_value(token) raises exactly when token is no category name
\* and matches none as a pattern; then the selection list and the cache stay
\* as they were; otherwise token becomes the last element of the selection
\* list and the names returned are the categories it stands for.
C4_AddMaskValueOutcome ==
    [][result'.op = "add_mask_value"
       => LET i == result'.mask.ix
              token == result'.token
              d == leaves[i].dataset_name
              names == result'.names
          IN  /\ result'.status = "ValueError" <=> Resolved(d, token) = {}
              /\ result'.status = "ValueError" => leaves' = leaves
              /\ result'.status = "ok" =>
                    /\ leaves'[i].mask_values = Append(leaves[i].mask_values, token)
                    /\ {names[k] : k \in 1..Len(names)} = Resolved(d, token)
                    /\ Len(names) = Cardinality(Resolved(d, token))]_vars

\* a token that matches nothing was refused by a leaf with a selection and
\* a populated cache
C4_Witness ==
    /\ IsLeafCall({"add_mask_value"})
    /\ result.status = "ValueError"
    /\ leaves[result.mask.ix].mask_values # <<>>
    /\ leaves[result.mask.ix].cached_result # None

\* C5: with include_missing off, to_array of a leaf is true at a cell iff
\* the raster's code there is the code of a category that some token of the
\* selection list stands for; so it is false everywhere for an empty
\* selection list; and the grid has the raster's shape.
C5_ToArrayIsCodeMembership ==
    (IsLeafCall({"to_array"}) /\ ~leaves[result.mask.ix].include_missing)
       => LET leaf == leaves[result.mask.ix]
              d == leaf.dataset_name
              grid == result.grid[1]
          IN  /\ grid.shape = Shape(d)
              /\ DOMAIN grid.data = Cells(Shape(d))
              /\ \A c \in Cells(Shape(d)) :
                    grid.data[c] = PyTrue
                       <=> \E k \in 1..Len(leaf.mask_values) :
                              Da(d)[c] \in Codes(d, leaf.mask_values[k])
              /\ \A c \in Cells(Shape(d)) : grid.data[c] \in {PyTrue, PyFalse}
              /\ leaf.mask_values = <<>>
                    => \A c \in Cells(Shape(d)) : grid.data[c] = PyFalse

\* to_array of a leaf with two tokens that select different cells, on a
\* raster that also has unselected and missing cells
C5_Witness ==
    /\ IsLeafCall({"to_array"})
    /\ LET leaf == leaves[result.mask.ix]
           d == leaf.dataset_name
       IN  /\ ~leaf.include_missing
           /\ Len(leaf.mask_values) >= 2
           /\ \E c \in Cells(Shape(d)) :
                 /\ Da(d)[c] \in Codes(d, leaf.mask_values[1])
                 /\ Da(d)[c] \notin Codes(d, leaf.mask_values[2])
           /\ \E c \in Cells(Shape(d)) : result.grid[1].data[c] = PyFalse

\* C6: a mask made by create_mask(..., include_missing=True) evaluates to
\* true at every missing cell of the raster.
C6_CreateMaskIncludesMissing ==
    (IsLeafCall({"create_mask"}) /\ result.status = "ok" /\ result.include_missing)
       => LET leaf == leaves[result.mask.ix]
              d == leaf.dataset_name
          IN  \A c \in Cells(Shape(d)) :
                 Da(d)[c] = NaN => ComputeMask(leaf)[c] = PyTrue

\* the calls that end in CHUKAuxilaryDataCombinedMask.__init__
CombineOps == {"CHUKAuxilaryDataCombinedMask", "or_mask", "and_mask", "not_mask"}

IsCombinedToArray(operators) ==
    /\ result.op = "to_array"
    /\ result.mask.kind = "combined"
    /\ result.status = "ok"
    /\ combos[result.mask.ix].operator \in operators

\* what to_array of a child yields in the current state: a leaf hands out
\* its cache when it has one
ChildGrid(ref) ==
    IF ref.kind = "leaf" /\ leaves[ref.ix].cached_result # None
    THEN leaves[ref.ix].cached_result[1]
    ELSE EvalMask(env.layout, leaves, combos, {}, ref).grid

\* C2: while no add_mask_value succeeds on a leaf with a non-empty selection
\* list and a populated cache, every call keeps that very cache object, and
\* each to_array of the leaf, made directly or through count, fraction or a
\* combined mask, returns it; the to_array that populates a cache returns the
\* object it stored.
C2_RepeatedToArraySameObject ==
    [][/\ \A i \in 1..Len(leaves) :
             (/\ leaves[i].mask_values # <<>>
              /\ leaves[i].cached_result # None
              /\ ~(/\ result'.op = "add_mask_value"
                   /\ result'.status = "ok"
                   /\ result'.mask = LeafRef(i)))
             => /\ leaves'[i].cached_result = leaves[i].cached_result
                /\ \A id \in result'.returns :
                      id[1] = i => id = leaves[i].cached_result[1].id
                /\ (result'.op = "to_array" /\ result'.mask = LeafRef(i))
                      => result'.grid = leaves[i].cached_result
       /\ \A id \in result'.returns :
             /\ leaves'[id[1]].cached_result # None
             /\ id = leaves'[id[1]].cached_result[1].id
       /\ (result'.op = "to_array" /\ result'.mask.kind = "leaf")
             => result'.grid = leaves'[result'.mask.ix].cached_result]_vars

\* a combination of a leaf with itself was evaluated: the leaf's to_array
\* ran twice in one call and returned one object
C2_Witness ==
    /\ IsCombinedToArray({"and", "or"})
    /\ \E i \in 1..Len(leaves) :
          /\ combos[result.mask.ix].input_masks = <<LeafRef(i), LeafRef(i)>>
          /\ leaves[i].mask_values # <<>>
          /\ result.returns = {leaves[i].cached_result[1].id}

\* C7: to_array of an AND of children of one shape is true at a cell iff
\* every child's to_array is true there, that of an OR iff some child's is;
\* the result has the children's shape, and equals the child's grid when
\* there is one child.
C7_AndOrCellwise ==
    IsCombinedToArray({"and", "or"})
       => LET self == combos[result.mask.ix]
              kids == self.input_masks
              grid == result.grid[1]
              child(k) == ChildGrid(kids[k])
          IN  (\A k \in 1..Len(kids) : child(k).shape = child(1).shape)
                 => /\ grid.shape = child(1).shape
                    /\ DOMAIN grid.data = Cells(grid.shape)
                    /\ \A c \in Cells(grid.shape) :
                          grid.data[c] = PyTrue
                             <=> IF self.operator = "and"
                                 THEN \A k \in 1..Len(kids) : child(k).data[c] = PyTrue
                                 ELSE \E k \in 1..Len(kids) : child(k).data[c] = PyTrue
                    /\ \A c \in Cells(grid.shape) : grid.data[c] \in {PyTrue, PyFalse}
                    /\ Len(kids) = 1 => grid.data = child(1).data

\* an AND of two children whose grids differ was evaluated
C7_Witness ==
    /\ IsCombinedToArray({"and"})
    /\ LET kids == combos[result.mask.ix].input_masks
       IN  /\ Len(kids) = 2
           /\ \E c \in Cells(result.grid[1].shape) :
                 /\ ChildGrid(kids[1]).data[c] = PyTrue
                 /\ ChildGrid(kids[2]).data[c] = PyFalse
           /\ \E c \in Cells(result.grid[1].shape) : result.grid[1].data[c] = PyTrue

\* C8: to_array of not_mask(m) has the shape of m.to_array() and is true at
\* a cell iff m.to_array() is false there.
C8_NotCellwise ==
    IsCombinedToArray({"not"})
       => LET m == ChildGrid(combos[result.mask.ix].input_masks[1])
              grid == result.grid[1]
          IN  /\ grid.shape = m.shape
              /\ DOMAIN grid.data = DOMAIN m.data
              /\ \A c \in DOMAIN m.data :
                    /\ grid.data[c] \in {PyTrue, PyFalse}
                    /\ grid.data[c] = PyTrue <=> m.data[c] = PyFalse

\* the negation of a combined mask whose grid has true and false cells was
\* evaluated
C8_Witness ==
    /\ IsCombinedToArray({"not"})
    /\ LET child == combos[result.mask.ix].input_masks[1]
       IN  /\ child.kind = "combined"
           /\ \E c \in DOMAIN ChildGrid(child).data : ChildGrid(child).data[c] = PyTrue
           /\ \E c \in DOMAIN ChildGrid(child).data : ChildGrid(child).data[c] = PyFalse

\* C9: constructing a combined mask raises iff no mask is given, or the
\* operator is none of and, or, not, or the operator is not and more than
\* one mask is given; otherwise the mask is made with those children and
\* that operator. So every combined mask has at least one child, and a NOT
\* mask exactly one.
C9_CombinedInitChecks ==
    /\ result.op \in CombineOps
          => /\ result.status = "ValueError"
                   <=> \/ result.nmasks = 0
                       \/ result.operator \notin {"and", "or", "not"}
                       \/ (result.operator = "not" /\ result.nmasks > 1)
             /\ result.status = "ok"
                   => /\ result.mask = ComboRef(Len(combos))
                      /\ combos[Len(combos)].operator = result.operator
                      /\ Len(combos[Len(combos)].input_masks) = result.nmasks
    /\ \A j \in 1..Len(combos) :
          /\ combos[j].operator \in {"and", "or", "not"}
          /\ Len(combos[j].input_masks) >= 1
          /\ combos[j].operator = "not" => Len(combos[j].input_masks) = 1

\* the constructor was given two masks and the operator not, and raised,
\* while a combined mask made earlier exists
C9_Witness ==
    /\ result.op = "CHUKAuxilaryDataCombinedMask"
    /\ result.status = "ValueError"
    /\ result.operator = "not"
    /\ result.nmasks = 2
    /\ Len(combos) >= 1

RECURSIVE Denotes(_, _)
\* whether the mask ref stands for true at cell c, by the selection lists
\* as they are now
Denotes(ref, c) ==
    IF ref.kind = "leaf"
    THEN LET leaf == leaves[ref.ix]
             d == leaf.dataset_name
         IN  \/ leaf.include_missing /\ Da(d)[c] = NaN
             \/ \E k \in 1..Len(leaf.mask_values) :
                   Da(d)[c] \in Codes(d, leaf.mask_values[k])
    ELSE LET self == combos[ref.ix]
             kids == self.input_masks
         IN  CASE self.operator = "not" -> ~Denotes(kids[1], c)
               [] self.operator = "and" -> \A k \in 1..Len(kids) : Denotes(kids[k], c)
               [] self.operator = "or" -> \E k \in 1..Len(kids) : Denotes(kids[k], c)

\* C10: a combined mask keeps no result: each to_array of it is its
\* operator applied to what its children yield now, down to the selection
\* lists of its leaves as they are at the call, so a category added to a
\* leaf after the combination was built or evaluated shows in the next
\* evaluation.
C10_CombinedFollowsLeaves ==
    IsCombinedToArray({"and", "or", "not"})
       => \A c \in Cells(result.grid[1].shape) :
             result.grid[1].data[c] = PyTrue <=> Denotes(result.mask, c)

RECURSIVE LeavesOf(_)
\* the leaves a mask is built on
LeavesOf(ref) ==
    IF ref.kind = "leaf" THEN {ref.ix}
    ELSE UNION {LeavesOf(combos[ref.ix].input_masks[k]) :
                   k \in 1..Len(combos[ref.ix].input_masks)}

\* a combination of a combination was evaluated, over a directly constructed
\* leaf that has since been given a token, which shows in the grid
C10_Witness ==
    /\ IsCombinedToArray({"and", "or", "not"})
    /\ combos[result.mask.ix].input_masks[1].kind = "combined"
    /\ \E i \in LeavesOf(result.mask) :
          /\ leaves[i].include_missing
          /\ leaves[i].mask_values # <<>>
    /\ \E c \in Cells(result.grid[1].shape) : result.grid[1].data[c] = PyTrue
    /\ \E c \in Cells(result.grid[1].shape) : result.grid[1].data[c] = PyFalse

\* the free functions of CHUKAuxilaryUtils that build a combined mask
UtilsOps == {"combine_masks_and", "combine_masks_or", "CHUKAuxilaryUtils.not_mask"}

\* what to_array of the mask yields from the given leaves: outcome, shape, cells
ValueOf(lv, ref) ==
    LET m == EvalMask(env.layout, lv, combos, {}, ref)
    IN  <<m.status, m.grid.shape, m.grid.data>>

\* C11: and_mask, or_mask, not_mask and the free functions combine_masks_and,
\* combine_masks_or, not_mask change no leaf mask and no existing combined
\* mask, and when they succeed return a new combined mask; evaluating a mask
\* changes nothing but to fill the empty cache of a leaf with the grid of the
\* leaf's selection, so what any mask evaluates to is the same afterwards.
C11_CombinatorsLeaveInputsAlone ==
    [][/\ result'.op \in (CombineOps \cup UtilsOps)
             => /\ leaves' = leaves
                /\ Len(combos') >= Len(combos)
                /\ \A j \in 1..Len(combos) : combos'[j] = combos[j]
                /\ IF result'.status = "ok"
                   THEN /\ Len(combos') = Len(combos) + 1
                        /\ result'.mask = ComboRef(Len(combos) + 1)
                   ELSE combos' = combos
       /\ result'.op \in {"to_array", "count", "fraction"}
             => /\ combos' = combos
                /\ Len(leaves') = Len(leaves)
                /\ \A i \in 1..Len(leaves) :
                      \/ leaves'[i] = leaves[i]
                      \/ /\ leaves[i].cached_result = None
                         /\ leaves'[i].cached_result # None
                         /\ leaves'[i].cached_result[1].data = ComputeMask(leaves[i])
                         /\ leaves'[i] = [leaves[i] EXCEPT !.cached_result =
                                             leaves'[i].cached_result]
                /\ \A r \in Refs(leaves, combos) :
                      ValueOf(leaves', r) = ValueOf(leaves, r)]_vars

\* one of two combinations built on the same leaf, which has a selection,
\* was evaluated
C11_Witness ==
    /\ IsCombinedToArray({"and", "or", "not"})
    /\ \E j \in 1..Len(combos), i \in 1..Len(leaves) :
          /\ j # result.mask.ix
          /\ \E k \in 1..Len(combos[j].input_masks) :
                combos[j].input_masks[k] = LeafRef(i)
          /\ \E k \in 1..Len(combos[result.mask.ix].input_masks) :
                combos[result.mask.ix].input_masks[k] = LeafRef(i)
          /\ leaves[i].mask_values # <<>>
          /\ leaves[i].cached_result # None

\* C12: to_array of an AND or OR combination, two of whose children evaluate
\* to grids of different shapes, raises and returns no grid.
C12_ShapeMismatchRaises ==
    (/\ result.op = "to_array"
     /\ result.mask.kind = "combined"
     /\ combos[result.mask.ix].operator \in {"and", "or"}
     /\ LET kids == combos[result.mask.ix].input_masks
            child(k) == EvalMask(env.layout, leaves, combos, {}, kids[k])
        IN  \E k1, k2 \in 1..Len(kids) :
               /\ child(k1).status = "ok"
               /\ child(k2).status = "ok"
               /\ child(k1).grid.shape # child(k2).grid.shape)
       => result.status # "ok"

\* the category names the raster declares
Declared == {env.flag_meanings[k] : k \in 1..Len(env.flag_meanings)}

\* where a name is declared first
FirstAt(name) ==
    CHOOSE k \in 1..Len(env.flag_meanings) :
        /\ env.flag_meanings[k] = name
        /\ \A j \in 1..(k - 1) : env.flag_meanings[j] # name

IsResolveCall == result.op = "__get_matching_keys"

\* C13: a token equal to a declared category name resolves to that one name,
\* also when the token read as a pattern matches other declared names.
C13_ExactNameWins ==
    (IsResolveCall /\ result.token \in Declared)
       => result.names = <<result.token>>

\* the token "?w" was resolved on a raster that declares "?w" and another
\* name the pattern "?w" matches
C13_Witness ==
    /\ IsResolveCall
    /\ result.token \in Declared
    /\ \E n \in Declared : n # result.token /\ fnmatchcase(n, result.token)
    /\ result.names = <<result.token>>

\* C14: a token that is no declared category name resolves to exactly the
\* declared names it matches as a case-sensitive shell pattern, each once,
\* in the order of their declaration.
C14_GlobInDeclarationOrder ==
    (IsResolveCall /\ result.token \notin Declared)
       => LET names == result.names
          IN  /\ {names[k] : k \in 1..Len(names)}
                    = {n \in Declared : fnmatchcase(n, result.token)}
              /\ \A a, b \in 1..Len(names) :
                    a < b => FirstAt(names[a]) < FirstAt(names[b])

\* C15: get_selected_mask_values returns, for the tokens of the selection
\* list in insertion order, the names each stands for, duplicates kept: it
\* is empty for a new mask, a successful add_mask_value extends it by the
\* list that call returned, and the call changes neither the selection list
\* nor the cache.
C15_SelectedIsConcatenation ==
    [][/\ result'.op = "get_selected_mask_values"
             => LET leaf == leaves[result'.mask.ix]
                    names == result'.names
                IN  /\ leaves' = leaves
                    /\ names = get_selected_mask_values(leaf)
                    /\ {names[k] : k \in 1..Len(names)}
                          = UNION {Resolved(leaf.dataset_name, leaf.mask_values[k]) :
                                      k \in 1..Len(leaf.mask_values)}
       /\ (result'.op = "CHUKAuxilaryDataMask" /\ result'.status = "ok")
             => get_selected_mask_values(leaves'[result'.mask.ix]) = <<>>
       /\ (result'.op = "add_mask_value" /\ result'.status = "ok")
             => get_selected_mask_values(leaves'[result'.mask.ix])
                  = get_selected_mask_values(leaves[result'.mask.ix]) \o result'.names]_vars

\* get_selected_mask_values returned a list that names a category twice, for
\* a leaf whose cache is populated
C15_Witness ==
    /\ IsLeafCall({"get_selected_mask_values"})
    /\ Len(leaves[result.mask.ix].mask_values) >= 2
    /\ leaves[result.mask.ix].cached_result # None
    /\ \E a, b \in 1..Len(result.names) : a < b /\ result.names[a] = result.names[b]

\* the raster cells at which the mask is true, by the meaning of its tree
TrueCells(ref) ==
    LET d == leaves[CHOOSE i \in LeavesOf(ref) : TRUE].dataset_name
    IN  {c \in Cells(Shape(d)) : Denotes(ref, c)}

\* the raster cells of the mask's grid
AllCells(ref) ==
    Cells(Shape(leaves[CHOOSE i \in LeavesOf(ref) : TRUE].dataset_name))

\* C16: count() of a leaf or combined mask is the number of cells at which
\* its to_array() is true, an integer between 0 and the number of cells.
C16_CountIsTrueCells ==
    (result.op = "count" /\ result.status = "ok")
       => /\ result.count = Cardinality(TrueCells(result.mask))
          /\ result.count \in 0..Cardinality(AllCells(result.mask))

\* count() of a combined mask that is true at some cells and false at others
C16_Witness ==
    /\ result.op = "count"
    /\ result.status = "ok"
    /\ result.mask.kind = "combined"
    /\ result.count > 0
    /\ result.count < Cardinality(AllCells(result.mask))
    /\ result.count = Cardinality(TrueCells(result.mask))

\* C17: fraction() is count() over the number of cells of the evaluated
\* grid, which is the product of the sizes of all its dimensions, the time
\* axis included.
C17_FractionOverAllDimensions ==
    (result.op = "fraction" /\ result.status = "ok")
       => /\ result.count = Cardinality(TrueCells(result.mask))
          /\ result.total = Cardinality(AllCells(result.mask))
          /\ result.total > 0

\* fraction() of a combined mask on the raster of 2 time steps of 1 x 2
\* cells: some of the 4 cells are true
C17_Witness ==
    /\ result.op = "fraction"
    /\ result.status = "ok"
    /\ result.mask.kind = "combined"
    /\ Len(Shape(leaves[1].dataset_name)) = 3
    /\ result.total = 4
    /\ result.count \in 1..3

\* the required attributes the dataset lacks
MissingKeys(ds) == {k \in expected_dataset_metadata_keys : k \notin DOMAIN ds.attrs}

\* C18: the metadata check returns a warnings list with
\* ("missing_global_attribute", key) exactly once for each required key the
\* dataset's attributes lack and nothing else, and an empty errors list, and
\* changes no attribute of the dataset.
C18_MetadataCheckWarnings ==
    [][result'.op = "CHUKMetadata.check"
       => LET ds == datasets[result'.dataset]
              w == result'.warnings
          IN  /\ BagToSet(w) = {<<"missing_global_attribute", k>> : k \in MissingKeys(ds)}
              /\ \A e \in BagToSet(w) : CopiesIn(e, w) = 1
              /\ result'.errors = <<>>
              /\ result'.status = "ok"
              /\ datasets' = datasets]_vars

\* the metadata check of a dataset that lacks two required attributes, has
\* the others and has one that is not required
C18_Witness ==
    /\ result.op = "CHUKMetadata.check"
    /\ Cardinality(MissingKeys(datasets[result.dataset])) = 2
    /\ "extra" \in DOMAIN datasets[result.dataset].attrs
    /\ BagCardinality(result.warnings) = 2

IsCheckCall == result.op = "CHUKDataSetUtils.check"

\* the entries of the errors list returned that are about dimension v
EntriesAbout(v) == {k \in 1..Len(result.errors) : result.errors[k][2][1] = v}

C20_CheckNeverRaises ==
    IsCheckCall
       => /\ result.status = "ok"
          /\ \A k \in 1..Len(result.errors) :
                HasVar(datasets[result.dataset], result.errors[k][2][1])

\* the objects reached from the roots through the elements of containers
RECURSIVE Reach(_, _)
Reach(heap, xs) ==
    LET more == xs \cup UNION {{heap[x].items[k] : k \in 1..Len(heap[x].items)} : x \in xs}
    IN  IF more = xs THEN xs ELSE Reach(heap, more)

\* the objects that make up the attributes of a dataset and of its variables
AttrCells(heap, ds) ==
    Reach(heap, {ds.attrs} \cup {ds.variables[n] : n \in DOMAIN ds.variables})

\* C21: to_json leaves the dataset's global attribute mapping and the
\* variable's attribute mapping as they were: across every call the caller
\* holds the same datasets, and every object reached from their attribute
\* mappings (nested lists, mappings, tuples, arrays and numbers) is in the
\* heap exactly as it was before the call.
C21_ToJsonLeavesAttrsAlone ==
    [][result'.op = "CHUKMetadata.to_json" =>
          /\ datasets' = datasets
          /\ \A i \in 1..Len(datasets) :
                \A x \in AttrCells(env.heap, datasets[i]) :
                   /\ x \in DOMAIN env'.heap
                   /\ env'.heap[x] = env.heap[x]]_vars

\* to_json has returned a structure in which a number nested in a list of
\* the attributes was converted, while the list of the dataset still holds
\* the np.int8
C21_Witness ==
    /\ result.op = "CHUKMetadata.to_json"
    /\ result.status = "ok"
    /\ \E x \in AttrCells(env.heap, datasets[result.dataset]) :
          /\ env.heap[x].type = "list"
          /\ \E k \in 1..Len(env.heap[x].items) :
                env.heap[env.heap[x].items[k]].type = "np.int8"
    /\ \A y \in Reach(env.heap, {result.object}) : env.heap[y].type # "np.int8"

\* numpy's scalar types of a fixed width
FixedWidthTypes ==
    {"np.float16", "np.float32", "np.float64",
     "np.int8", "np.int16", "np.int32", "np.int64", "np.uint8"}

\* C22: whenever to_json returns, the returned structure holds no
\* fixed-width numeric scalar and no array at any depth.
C22_ToJsonResultIsPlain ==
    (result.op = "CHUKMetadata.to_json" /\ result.status = "ok") =>
        \A y \in Reach(env.heap, {result.object}) :
           env.heap[y].type \notin FixedWidthTypes \cup {"np.ndarray"}

\* the attributes that create_new_dataset passes with required=True
RequiredKeys ==
    {ExtendCalls[k].key : k \in {j \in 1..Len(ExtendCalls) : ExtendCalls[j].required}}

\* the value is a string that is not empty
NonEmpty(value) == value # None /\ value # Some("")

C24_CreatedDatasetChecks ==
    [][(/\ result.op = "create_new_dataset"
        /\ result.status = "ok"
        /\ result'.op = "CHUKDataSetUtils.check"
        /\ result'.dataset = result.dataset) =>
          LET empty == {k \in expected_dataset_metadata_keys :
                           ArgValue(result.args, k) = Some("")}
          IN  /\ result'.status = "ok"
              /\ result'.errors = <<>>
              /\ result'.warnings =
                    SetToBag({<<"missing_global_attribute", k>> : k \in empty})
              /\ (empty = {} => result'.warnings = EmptyBag)]_vars

\* check has returned for a dataset created with an empty summary: it
\* reports the missing summary, and no error
C24_Witness ==
    /\ result.op = "CHUKDataSetUtils.check"
    /\ result.status = "ok"
    /\ ArgValue(env.args, "summary") = Some("")
    /\ "summary" \notin DOMAIN datasets[result.dataset].attrs
    /\ BagIn(<<"missing_global_attribute", "summary">>, result.warnings)
    /\ result.errors = <<>>

\* C29: create_new_dataset fails only when one of the four required
\* attributes is "" or None; when it succeeds, every optional parameter
\* whose value is "" or None is left out of the global attributes, and every
\* parameter and every other attribute whose value is a non-empty string is
\* in them under its own key.
C29_OptionalAttributesNeverFail ==
    result.op = "create_new_dataset" =>
        /\ result.status # "ok" =>
              \E k \in RequiredKeys : ~NonEmpty(ArgValue(result.args, k))
        /\ result.status = "ok" =>
              LET attrs == datasets[result.dataset].attrs
                  other == result.other_attributes
              IN  /\ \A k \in ParameterNames \ RequiredKeys :
                        ~NonEmpty(ArgValue(result.args, k)) => k \notin DOMAIN attrs
                  /\ \A k \in ParameterNames :
                        NonEmpty(ArgValue(result.args, k)) =>
                           /\ k \in DOMAIN attrs
                           /\ attrs[k] = ArgValue(result.args, k)[1]
                  /\ \A k \in DOMAIN other :
                        other[k] # "" => (k \in DOMAIN attrs /\ attrs[k] = other[k])

\* the grid shape (y, x) that add_variable compares with
GridShape == env.chuk_grid_ds.shapes["lat"]

\* the data is organised by (y, x), by (time, y, x) or by (y, x, time)
MatchesYX(shape) == shape = GridShape
MatchesTimeYX(shape) == Len(shape) = 3 /\ SubSeq(shape, 2, 3) = GridShape
MatchesYXTime(shape) == Len(shape) = 3 /\ SubSeq(shape, 1, 2) = GridShape

\* C25: whenever add_variable is called with data whose shape matches none
\* of (y, x), (time, y, x) and (y, x, time), of two axes or not, it raises
\* ValueError and the dataset is left as it was, without the new variable.
C25_BadShapeRaisesValueError ==
    [][(/\ result'.op = "add_variable"
        /\ ~MatchesYX(result'.shape)
        /\ ~MatchesTimeYX(result'.shape)
        /\ ~MatchesYXTime(result'.shape)) =>
          /\ result'.status = "ValueError"
          /\ datasets' = datasets]_vars

\* C26: add_variable adds data of the grid shape with dimensions (y, x),
\* data whose last two axes are the grid shape with dimensions
\* (time, y, x), and data whose first two axes are the grid shape (and whose
\* last two are not) with dimensions (y, x, time).
C26_AcceptedShapes ==
    result.op = "add_variable" =>
        LET ds == datasets[result.dataset]
            added(dims) ==
               /\ result.status = "ok"
               /\ result.variable_name \in DOMAIN ds.dims
               /\ ds.dims[result.variable_name] = dims
               /\ ds.shapes[result.variable_name] = result.shape
        IN  /\ MatchesYX(result.shape) => added(<<"y", "x">>)
            /\ MatchesTimeYX(result.shape) => added(<<"time", "y", "x">>)
            /\ (MatchesYXTime(result.shape) /\ ~MatchesTimeYX(result.shape))
                  => added(<<"y", "x", "time">>)

\* C27: load of a file that exists returns a dataset for every choice of
\* add_latlon and add_latlon_bnds, which holds lon and lat when add_latlon
\* is set and lon_bnds and lat_bnds when add_latlon_bnds is set; save with
\* the same flags writes a file that holds them.
C27_LoadSaveAddLatLon ==
    LET has(ds) ==
           /\ result.add_latlon => {"lon", "lat"} \subseteq DOMAIN ds.shapes
           /\ result.add_latlon_bnds => {"lon_bnds", "lat_bnds"} \subseteq DOMAIN ds.shapes
    IN  /\ (result.op = "load" /\ result.status # "FileNotFoundError") =>
              /\ result.status = "ok"
              /\ result.returned = "Dataset"
              /\ has(datasets[result.dataset])
        /\ result.op = "save" =>
              /\ result.status = "ok"
              /\ result.path \in DOMAIN env.disk
              /\ has(env.disk[result.path])

\* C28: combine_masks_and and combine_masks_or called with no mask raise
\* the error the constructor raises for zero children (ValueError), and
\* called with one mask return a combination that evaluates to what that
\* mask evaluates to.
C28_FreeFunctionsEdgeCases ==
    result.op \in {"combine_masks_and", "combine_masks_or"} =>
        /\ result.nmasks = 0 => result.status = "ValueError"
        /\ result.nmasks = 1 =>
              /\ result.status = "ok"
              /\ ValueOf(leaves, result.mask)
                    = ValueOf(leaves, combos[result.mask.ix].input_masks[1])

\* what to_array yields for a leaf, by its selection list
LeafGrid(leaf) == ComputeMask(leaf)

\* the categories selected on a leaf, as a set
SelectedSet(leaf) ==
    LET keys == get_selected_mask_values(leaf)
    IN  {keys[k] : k \in 1..Len(keys)}

\* C30: selection on a leaf mask only grows. Across every add_mask_value
\* that succeeds, the selection list keeps the previous list as a prefix,
\* every cell that to_array gave as true before the call it gives as true
\* after it, and when every category the token resolves to was selected
\* already, to_array gives the same grid as before; no other leaf changes.
C30_SelectionOnlyGrows ==
    [][(result'.op = "add_mask_value" /\ result'.status = "ok" /\ leaves' # leaves) =>
          LET i == result'.mask.ix
              old == leaves[i]
              new == leaves'[i]
          IN  /\ Len(new.mask_values) = Len(old.mask_values) + 1
              /\ SubSeq(new.mask_values, 1, Len(old.mask_values)) = old.mask_values
              /\ new.mask_values[Len(new.mask_values)] = result'.token
              /\ \A c \in DOMAIN LeafGrid(old) :
                    LeafGrid(old)[c] = PyTrue => LeafGrid(new)[c] = PyTrue
              /\ SelectedSet(new) = SelectedSet(old) => LeafGrid(new) = LeafGrid(old)
              /\ \A j \in 1..Len(leaves) : j # i => leaves'[j] = leaves[j]]_vars

\* a token whose categories were selected already was added a second time
\* to a leaf that selects some cell, and the leaf was evaluated again
C30_Witness ==
    /\ result.op = "to_array"
    /\ result.status = "ok"
    /\ result.mask.kind = "leaf"
    /\ LET leaf == leaves[result.mask.ix]
       IN  /\ Len(leaf.mask_values) = 2
           /\ leaf.mask_values[1] = leaf.mask_values[2]
           /\ \E c \in DOMAIN LeafGrid(leaf) : LeafGrid(leaf)[c] = PyTrue
           /\ leaf.cached_result # None
           /\ leaf.cached_result[1].data = LeafGrid(leaf)

====
